---- MODULE Spec2Model ----
(***************************************************************************)
(* BM25 index over DuckLake: dict(termid, term, df), docs(docid, len),     *)
(* postings(termid, docid, tf) and data(docid, content), maintained by     *)
(* reindex / insert / delete / delete_N / delete_N_rand / modify of        *)
(* src/code/index_tools.py (and the earlier revision of the point updates  *)
(* in src/code/update_tools.py), and read by the query runners of          *)
(* src/code/fts_tools.py.                                                  *)
(*                                                                         *)
(* Text is a sequence of one-character strings.  dict, docs and data are   *)
(* sets of rows; postings is a bag of rows (no table has a key constraint, *)
(* and a plain INSERT can repeat a row).  A connection is a record holding *)
(* the committed tables, the tables as the open transaction sees them and  *)
(* whether a transaction is open.                                          *)
(***************************************************************************)
EXTENDS Integers, Sequences, FiniteSets, Bags, TLC

VARIABLES dict, docs, postings, data, temp, given, trip, perf, qry, tok, last

vars == <<dict, docs, postings, data, temp, given, trip, perf, qry, tok, last>>

(***************************************************************************)
(* Bounds of the model.                                                    *)
(***************************************************************************)
MaxDocid == 2
MaxTermid == 4
MaxDf == 2
MaxN == 2

(***************************************************************************)
(* Values.                                                                 *)
(***************************************************************************)
\* Python None (a docid argument left out, a handler returning nothing).
None == -1
\* SQL NULL in a BIGINT column.
NULL == -1
\* SQL NULL / Python None in a TEXT column.
NullContent == <<"NULL">>

OK == "ok"
TransactionException == "TransactionException"
BackingStoreError == "BackingStoreError"
OutOfRangeError == "OutOfRangeError"
InvalidInputException == "InvalidInputException"
CatalogException == "CatalogException"
ValueError == "ValueError"

(***************************************************************************)
(* Characters and tokenization.                                            *)
(***************************************************************************)
LowerAlphabet == <<"a","b","c","d","e","f","g","h","i","j","k","l","m",
                   "n","o","p","q","r","s","t","u","v","w","x","y","z">>
UpperAlphabet == <<"A","B","C","D","E","F","G","H","I","J","K","L","M",
                   "N","O","P","Q","R","S","T","U","V","W","X","Y","Z">>

LowerSet == {LowerAlphabet[i] : i \in 1..26}
UpperSet == {UpperAlphabet[i] : i \in 1..26}

IsLower(ch) == ch \in LowerSet
IsUpper(ch) == ch \in UpperSet

ToLower == [ch \in UpperSet |-> LowerAlphabet[CHOOSE i \in 1..26 : UpperAlphabet[i] = ch]]

\* The character class of _WORD_RE, [A-Za-z].
WORD_RE(ch) == IsLower(ch) \/ IsUpper(ch)

\* str.lower() on one character.
lower(ch) == IF IsUpper(ch) THEN ToLower[ch] ELSE ch

\* _WORD_RE.finditer(content): the maximal runs of word characters, in order.
RECURSIVE finditer(_, _, _, _)
finditer(s, i, cur, acc) ==
    IF i > Len(s)
    THEN IF cur = <<>> THEN acc ELSE Append(acc, cur)
    ELSE IF WORD_RE(s[i])
         THEN finditer(s, i + 1, Append(cur, s[i]), acc)
         ELSE finditer(s, i + 1, <<>>, IF cur = <<>> THEN acc ELSE Append(acc, cur))

tokenize(content) ==
    IF content = NullContent \/ content = <<>>
    THEN <<>>
    ELSE LET m == finditer(content, 1, <<>>, <<>>)
         IN  [k \in 1..Len(m) |-> [j \in 1..Len(m[k]) |-> lower(m[k][j])]]

\* Counter(tokens)[t].
Counter(tokens, t) == Cardinality({k \in 1..Len(tokens) : tokens[k] = t})

\* list(Counter(tokens).keys()): the distinct tokens in order of first occurrence.
distinct_terms(tokens) ==
    LET first == {k \in 1..Len(tokens) : \A j \in 1..(k - 1) : tokens[j] # tokens[k]}
        RECURSIVE pick(_, _)
        pick(k, acc) ==
            IF k > Len(tokens) THEN acc
            ELSE pick(k + 1, IF k \in first THEN Append(acc, tokens[k]) ELSE acc)
    IN  pick(1, <<>>)

\* Characters outside ASCII: U+212A KELVIN SIGN and U+0130 LATIN CAPITAL
\* LETTER I WITH DOT ABOVE, whose lower case is an ASCII letter, and U+00E9,
\* a lower-case letter outside [a-z].
KelvinSign == "U+212A"
DottedI == "U+0130"
EAcute == "U+00E9"

\* SQL lower(content) on one character (the lower case of the code point),
\* then the class [a-z].
sql_lower(ch) ==
    IF ch = KelvinSign THEN "k"
    ELSE IF ch = DottedI THEN "i"
    ELSE lower(ch)

\* regexp_extract_all(lower(content), '[a-z]+'); NULL content gives NULL.
RECURSIVE extract_all(_, _, _, _)
extract_all(s, i, cur, acc) ==
    IF i > Len(s)
    THEN IF cur = <<>> THEN acc ELSE Append(acc, cur)
    ELSE IF IsLower(sql_lower(s[i]))
         THEN extract_all(s, i + 1, Append(cur, sql_lower(s[i])), acc)
         ELSE extract_all(s, i + 1, <<>>, IF cur = <<>> THEN acc ELSE Append(acc, cur))

regexp_extract_all(content) == extract_all(content, 1, <<>>, <<>>)

\* ORDER BY term: lexicographic order on lower-case terms.
Ord == [ch \in LowerSet |-> CHOOSE i \in 1..26 : LowerAlphabet[i] = ch]

ord(ch) == Ord[ch]

RECURSIVE term_lt(_, _)
term_lt(s, t) ==
    IF s = <<>> THEN t # <<>>
    ELSE IF t = <<>> THEN FALSE
    ELSE IF ord(Head(s)) < ord(Head(t)) THEN TRUE
    ELSE IF ord(Head(s)) > ord(Head(t)) THEN FALSE
    ELSE term_lt(Tail(s), Tail(t))

\* ROW_NUMBER() OVER (ORDER BY term) of term t among the distinct terms ts.
row_number(ts, t) == 1 + Cardinality({u \in ts : term_lt(u, t)})

(***************************************************************************)
(* Inputs.                                                                 *)
(***************************************************************************)
apple == <<"a","p","p","l","e">>
banana == <<"b","a","n","a","n","a">>
cherry == <<"c","h","e","r","r","y">>
space == <<" ">>

\* "apple banana apple", "banana cherry", "apple cherry cherry" (test.py)
\* and "42", which has no token.
doc1 == apple \o space \o banana \o space \o apple
doc2 == banana \o space \o cherry
new2 == apple \o space \o cherry \o space \o cherry
digits == <<"4","2">>

Contents == {doc1, doc2, new2, digits, NullContent}

\* Queries: "apple banana", "apple apple banana", "cherry", "kiwi apple"
\* (kiwi is in no document) and "42".
kiwi == <<"k","i","w","i">>
q_ab == apple \o space \o banana
q_aab == apple \o space \o apple \o space \o banana
q_c == cherry
q_ka == kiwi \o space \o apple

Queries == {q_ab, q_aab, q_c, q_ka, digits}

Docids == 1..MaxDocid

\* The possible contents of my_ducklake.data after initialise_data:
\* at most one row per docid.
InitData ==
    UNION {{ {[docid |-> d, content |-> f[d]] : d \in S} : f \in [S -> Contents]}
           : S \in SUBSET Docids}

\* tokenize and regexp_extract_all over the inputs, computed once.
TokenizeTable == [c \in Contents \cup Queries |-> tokenize(c)]
ExtractTable == [c \in Contents \ {NullContent} |-> regexp_extract_all(c)]
DistinctTable == [c \in Contents |-> distinct_terms(tokenize(c))]

(***************************************************************************)
(* Tables, bags of rows and the connection.                                *)
(***************************************************************************)
\* Number of copies of the rows of bag B that satisfy P.
RECURSIVE bag_count(_, _)
bag_count(B, S) ==
    IF S = {} THEN 0
    ELSE LET r == CHOOSE x \in S : TRUE IN B[r] + bag_count(B, S \ {r})

\* DELETE FROM B: the bag of the rows that stay, S being those rows.
bag_keep(B, S) == [r \in S \cap DOMAIN B |-> B[r]]

\* UPDATE B SET ... : row r becomes F[r], copies are kept.
bag_update(B, F) ==
    [e \in {F[r] : r \in DOMAIN B} |-> bag_count(B, {r \in DOMAIN B : F[r] = e})]

\* The database as one connection sees it: the four DuckLake tables and the
\* connection's TEMP tables (an absent TEMP table and an empty one are both {}).
\* A TEMP table that does not exist (DROP TABLE IF EXISTS leaves this).
NoTable == [exists |-> FALSE, rows |-> EmptyBag]

Tables(di, dc, po, da) ==
    [dict |-> di, docs |-> dc, postings |-> po, data |-> da,
     touched_termids |-> {}, del_docids |-> {}, src_terms |-> {}, docid_sql |-> {},
     query_terms |-> NoTable]

\* con: a connection with no transaction open (autocommit).
connect(t) == [committed |-> t, cur |-> t, inTx |-> FALSE]

\* What a call hands back: the connection, the exception raised (OK when
\* none), the value returned and, for a query, the bag of the docids of the
\* rows returned (a docid as many times as rows carry it).
Return(c, e, r) == [conn |-> c, exc |-> e, ret |-> r, rows |-> EmptyBag]

QueryReturn(c, e, rows) == [conn |-> c, exc |-> e, ret |-> None, rows |-> rows]

\* con.execute(...) of one statement outside BEGIN..COMMIT: autocommit.
execute(c, t) == [c EXCEPT !.cur = t, !.committed = IF c.inTx THEN c.committed ELSE t]

\* con.execute("BEGIN"): DuckDB refuses to start a transaction inside one.
BEGIN(c) ==
    IF c.inTx
    THEN Return(c, TransactionException, None)
    ELSE Return([c EXCEPT !.inTx = TRUE], OK, None)

\* con.execute("COMMIT"): publishes what the transaction wrote.
COMMIT(c) ==
    IF ~c.inTx
    THEN Return(c, TransactionException, None)
    ELSE Return([committed |-> c.cur, cur |-> c.cur, inTx |-> FALSE], OK, None)

\* con.execute("ROLLBACK"): discards what the transaction wrote.
ROLLBACK(c) ==
    IF ~c.inTx
    THEN Return(c, TransactionException, None)
    ELSE Return([committed |-> c.committed, cur |-> c.committed, inTx |-> FALSE], OK, None)

\* A handler that publishes what the failed transaction wrote.
except_commit(c, e) ==
    LET r == COMMIT(c)
    IN  Return(r.conn, e, None)

\* except Exception: con.execute("ROLLBACK"); raise
except_rollback(c, e) ==
    LET r == ROLLBACK(c)
    IN  Return(r.conn, IF r.exc # OK THEN r.exc ELSE e, None)

(***************************************************************************)
(* Full rebuild (index_tools.py).                                          *)
(***************************************************************************)
\* v_token_stream: one row per token occurrence; UNNEST(NULL) yields no row.
row_tokens(r) ==
    IF r.content = NullContent THEN <<>> ELSE ExtractTable[r.content]

v_token_stream(da) == UNION {{<<r, k>> : k \in 1..Len(row_tokens(r))} : r \in da}

stream_term(e) == row_tokens(e[1])[e[2]]

\* df taken as COUNT(*): the occurrences of the term, not its documents.
count_occurrences(stream, t) == Cardinality({x \in stream : stream_term(x) = t})

\* COUNT(DISTINCT docid) AS df FROM v_token_stream GROUP BY term
count_distinct_docid_of(stream, t) ==
    Cardinality({e[1].docid : e \in {x \in stream : stream_term(x) = t}})

\* The three Parquet artifacts written from my_ducklake.data.
build_index_to_parquet_from_ducklake(da) ==
    LET stream == v_token_stream(da)
        terms  == {stream_term(e) : e \in stream}
        tid(t) == row_number(terms, t)
        pairs  == {<<stream_term(e), e[1].docid>> : e \in stream}
    IN  [dict |-> {[termid |-> tid(t), term |-> t,
                    df |-> count_distinct_docid_of(stream, t)]
                   : t \in terms},
         docs |-> {[docid |-> r.docid,
                    len |-> IF r.content = NullContent THEN NULL
                            ELSE Len(ExtractTable[r.content])] : r \in da},
         postings |-> SetToBag({[termid |-> tid(pr[1]), docid |-> pr[2],
                                 tf |-> Cardinality({e \in stream : stream_term(e) = pr[1]
                                                                    /\ e[1].docid = pr[2]})]
                                : pr \in pairs})]

import_steps == 3

\* Statement k of the import transaction: CREATE OR REPLACE TABLE ... AS SELECT.
import_stmt(t, parq, k) ==
    CASE k = 1 -> [t EXCEPT !.dict = parq.dict]
      [] k = 2 -> [t EXCEPT !.docs = parq.docs]
      [] k = 3 -> [t EXCEPT !.postings = parq.postings]

RECURSIVE import_run(_, _, _)
import_run(t, parq, k) ==
    IF k = 0 THEN t ELSE import_stmt(import_run(t, parq, k - 1), parq, k)

\* fail = 0: no statement fails; fail = k: the k-th statement of the
\* transaction raises (k = import_steps + 1 is the COMMIT).
import_index_parquets_into_ducklake(c, parq, fail) ==
    LET b == BEGIN(c)
    IN  IF b.exc # OK THEN b
        ELSE LET n == IF fail = 0 THEN import_steps ELSE fail - 1
                 w == [b.conn EXCEPT !.cur = import_run(b.conn.cur, parq, n)]
             IN  IF fail # 0 THEN except_rollback(w, BackingStoreError)
                 ELSE LET cm == COMMIT(w)
                      IN  IF cm.exc # OK THEN except_rollback(cm.conn, cm.exc) ELSE cm

\* The statements of build_index_to_parquet_from_ducklake: USE, CREATE VIEW,
\* three COPY ... TO, DROP VIEW.  They write files and a TEMP view, no table.
build_steps == 6

\* fail = 0: no statement fails; fail in 1..build_steps: that statement of
\* the build raises and the import is not reached; beyond: the statement
\* fail - build_steps of the import transaction raises.
reindex(c, fail) ==
    IF fail \in 1..build_steps
    THEN Return(c, BackingStoreError, None)
    ELSE import_index_parquets_into_ducklake(
             c, build_index_to_parquet_from_ducklake(c.cur.data),
             IF fail = 0 THEN 0 ELSE fail - build_steps)

(***************************************************************************)
(* Full rebuild of the earlier revision (indexing_tools.py).               *)
(***************************************************************************)
\* SELECT docid, content FROM main.data: the rows in any order.
fetch_data_df(da) ==
    {rows \in [1..Cardinality(da) -> da] : \A i, j \in 1..Cardinality(da) :
                                               rows[i] = rows[j] => i = j}

\* toks of a row: content None is tokenized as "".
row_toks(r) == TokenizeTable[r.content]

RECURSIVE all_toks(_, _)
all_toks(rows, k) ==
    IF k = 0 THEN <<>> ELSE all_toks(rows, k - 1) \o row_toks(rows[k])

\* _build_index: termids by first appearance, df = number of documents
\* holding the term, one docs row per data row (len 0 without tokens).
build_index(rows) ==
    LET order  == distinct_terms(all_toks(rows, Len(rows)))
        tid(t) == CHOOSE i \in 1..Len(order) : order[i] = t
        has(k) == {row_toks(rows[k])[i] : i \in 1..Len(row_toks(rows[k]))}
    IN  [dict |-> {[termid |-> i, term |-> order[i],
                    df |-> Cardinality({k \in 1..Len(rows) : order[i] \in has(k)})]
                   : i \in 1..Len(order)},
         docs |-> {[docid |-> rows[k].docid, len |-> Len(row_toks(rows[k]))]
                   : k \in 1..Len(rows)},
         postings |-> SetToBag(UNION {{[termid |-> tid(t), docid |-> rows[k].docid,
                                        tf |-> Counter(row_toks(rows[k]), t)]
                                       : t \in has(k)} : k \in 1..Len(rows)})]

legacy_import_steps == 9

\* Statement k of the earlier import: three DROP TABLE, three CREATE TABLE,
\* three INSERT ... FROM read_parquet; no transaction is opened.
legacy_import_stmt(t, parq, k) ==
    CASE k = 1 -> [t EXCEPT !.postings = EmptyBag]
      [] k = 2 -> [t EXCEPT !.docs = {}]
      [] k = 3 -> [t EXCEPT !.dict = {}]
      [] k = 4 -> [t EXCEPT !.dict = {}]
      [] k = 5 -> [t EXCEPT !.docs = {}]
      [] k = 6 -> [t EXCEPT !.postings = EmptyBag]
      [] k = 7 -> [t EXCEPT !.dict = parq.dict]
      [] k = 8 -> [t EXCEPT !.docs = parq.docs]
      [] k = 9 -> [t EXCEPT !.postings = parq.postings]

RECURSIVE legacy_import_run(_, _, _)
legacy_import_run(c, parq, k) ==
    IF k = 0 THEN c
    ELSE LET b == legacy_import_run(c, parq, k - 1)
         IN  execute(b, legacy_import_stmt(b.cur, parq, k))

\* fail = k: the k-th statement raises; the statements before it stay.
legacy_import_index_parquets_into_ducklake(c, parq, fail) ==
    IF fail = 0
    THEN Return(legacy_import_run(c, parq, legacy_import_steps), OK, None)
    ELSE Return(legacy_import_run(c, parq, fail - 1), BackingStoreError, None)

\* rows: the data rows in the order the SELECT returned them.
build_and_import_from_ducklake(c, rows, fail) ==
    legacy_import_index_parquets_into_ducklake(c, build_index(rows), fail)

(***************************************************************************)
(* Point delete (index_tools.py).                                          *)
(***************************************************************************)
delete_steps == 9

\* The UPDATE without its WHERE clause: every dict row is decremented.
update_dict_df_everywhere(di, touched) ==
    {[d EXCEPT !.df = IF d.df > 0 THEN d.df - 1 ELSE 0] : d \in di}

\* UPDATE my_ducklake.dict SET df = CASE WHEN df > 0 THEN df - 1 ELSE 0 END
\* WHERE termid IN (SELECT termid FROM touched_termids)
update_dict_df(di, touched) ==
    {IF d.termid \in touched
     THEN [d EXCEPT !.df = IF d.df > 0 THEN d.df - 1 ELSE 0]
     ELSE d : d \in di}

\* The SELECT without its WHERE clause: the termids of every posting.
select_termids_everywhere(po, docid) == {p.termid : p \in DOMAIN po}

\* SELECT DISTINCT termid FROM my_ducklake.postings WHERE docid = ?
select_distinct_termid(po, docid) ==
    {p.termid : p \in {q \in DOMAIN po : q.docid = docid}}

\* The statement left out: rows whose df reached 0 stay in dict.
keep_zero_df(di, touched) == di

\* DELETE FROM my_ducklake.dict
\* WHERE df = 0 AND termid IN (SELECT termid FROM touched_termids)
delete_zero_df(di, touched) == {d \in di : ~(d.df = 0 /\ d.termid \in touched)}

delete_stmt(t, docid, k) ==
    CASE k = 1 -> [t EXCEPT !.touched_termids = {}]
      [] k = 2 -> [t EXCEPT !.touched_termids = {}]
      [] k = 3 -> [t EXCEPT !.touched_termids = select_distinct_termid(t.postings, docid)]
      [] k = 4 -> [t EXCEPT !.dict = update_dict_df(t.dict, t.touched_termids)]
      [] k = 5 -> [t EXCEPT !.dict = delete_zero_df(t.dict, t.touched_termids)]
      [] k = 6 -> [t EXCEPT !.postings = bag_keep(t.postings, {p \in DOMAIN t.postings : p.docid # docid})]
      [] k = 7 -> [t EXCEPT !.docs = {d \in t.docs : d.docid # docid}]
      [] k = 8 -> [t EXCEPT !.data = {d \in t.data : d.docid # docid}]
      [] k = 9 -> [t EXCEPT !.touched_termids = {}]

RECURSIVE delete_run(_, _, _)
delete_run(t, docid, k) ==
    IF k = 0 THEN t ELSE delete_stmt(delete_run(t, docid, k - 1), docid, k)

delete(c, docid, fail) ==
    LET b == BEGIN(c)
    IN  IF b.exc # OK THEN b
        ELSE LET n == IF fail = 0 THEN delete_steps ELSE fail - 1
                 w == [b.conn EXCEPT !.cur = delete_run(b.conn.cur, docid, n)]
             IN  IF fail # 0 THEN except_rollback(w, BackingStoreError)
                 ELSE LET cm == COMMIT(w)
                      IN  IF cm.exc # OK THEN except_rollback(cm.conn, cm.exc) ELSE cm

(***************************************************************************)
(* Batch delete (index_tools.py).                                          *)
(***************************************************************************)
delete_N_steps == 13

\* The SELECT without its LIMIT: every row of docs.
limit_left_out(rows, N) == {rows}

\* SELECT docid FROM my_ducklake.docs LIMIT N: any N rows of docs (all of
\* them when docs has fewer).  ORDER BY RANDOM() LIMIT N picks the same way.
limit(rows, N) ==
    {S \in SUBSET rows : Cardinality(S) = IF N < Cardinality(rows) THEN N ELSE Cardinality(rows)}

\* SUM(tf) over the rows S of the bag B.
RECURSIVE sum_tf(_, _)
sum_tf(B, S) ==
    IF S = {} THEN 0
    ELSE LET r == CHOOSE x \in S : TRUE IN B[r] * r.tf + sum_tf(B, S \ {r})

\* The count taken as SUM(tf) instead of COUNT(DISTINCT docid).
count_sum_tf(po, del, tid) ==
    sum_tf(po, {p \in DOMAIN po : p.docid \in del /\ p.termid = tid})

\* The count taken as 1 for every touched term.
count_one(po, del, tid) == 1

\* SELECT COUNT(DISTINCT docid) AS cnt FROM my_ducklake.postings
\* WHERE docid IN (SELECT docid FROM del_docids), for the group of termid tid.
count_distinct_docid(po, del, tid) ==
    Cardinality({p.docid : p \in {q \in DOMAIN po : q.docid \in del /\ q.termid = tid}})

\* The statement left out: rows whose df reached 0 stay in dict.
keep_zero_df_of(di, touched) == di

\* DELETE FROM my_ducklake.dict
\* WHERE df = 0 AND termid IN (SELECT termid FROM touched_termids),
\* touched_termids holding rows (termid, cnt).
delete_zero_df_of(di, touched) ==
    {d \in di : ~(d.df = 0 /\ \E tt \in touched : tt.termid = d.termid)}

\* picked: the rows of docs that the LIMIT returned.
delete_N_stmt(t, picked, k) ==
    CASE k = 1 -> [t EXCEPT !.del_docids = {}]
      [] k = 2 -> [t EXCEPT !.touched_termids = {}]
      [] k = 3 -> [t EXCEPT !.del_docids = {}]
      [] k = 4 -> [t EXCEPT !.del_docids = {r.docid : r \in picked}]
      [] k = 5 -> [t EXCEPT !.touched_termids = {}]
      [] k = 6 -> [t EXCEPT !.touched_termids =
                      LET hit == {p \in DOMAIN t.postings : p.docid \in t.del_docids}
                      IN  {[termid |-> tid,
                            cnt |-> count_distinct_docid(t.postings, t.del_docids, tid)]
                           : tid \in {p.termid : p \in hit}}]
      [] k = 7 -> [t EXCEPT !.dict =
                      {IF \E tt \in t.touched_termids : tt.termid = d.termid
                       THEN LET tt == CHOOSE x \in t.touched_termids : x.termid = d.termid
                            IN  [d EXCEPT !.df = IF d.df > tt.cnt THEN d.df - tt.cnt ELSE 0]
                       ELSE d : d \in t.dict}]
      [] k = 8 -> [t EXCEPT !.dict = delete_zero_df_of(t.dict, t.touched_termids)]
      [] k = 9 -> [t EXCEPT !.postings =
                      bag_keep(t.postings, {p \in DOMAIN t.postings : p.docid \notin t.del_docids})]
      [] k = 10 -> [t EXCEPT !.docs = {d \in t.docs : d.docid \notin t.del_docids}]
      [] k = 11 -> [t EXCEPT !.data = {d \in t.data : d.docid \notin t.del_docids}]
      [] k = 12 -> [t EXCEPT !.touched_termids = {}]
      [] k = 13 -> [t EXCEPT !.del_docids = {}]

RECURSIVE delete_N_run(_, _, _)
delete_N_run(t, picked, k) ==
    IF k = 0 THEN t ELSE delete_N_stmt(delete_N_run(t, picked, k - 1), picked, k)

delete_N(c, picked, fail) ==
    LET b == BEGIN(c)
    IN  IF b.exc # OK THEN b
        ELSE LET n == IF fail = 0 THEN delete_N_steps ELSE fail - 1
                 w == [b.conn EXCEPT !.cur = delete_N_run(b.conn.cur, picked, n)]
             IN  IF fail # 0 THEN except_rollback(w, BackingStoreError)
                 ELSE LET cm == COMMIT(w)
                      IN  IF cm.exc # OK THEN except_rollback(cm.conn, cm.exc) ELSE cm

\* The same statements, the docids chosen by ORDER BY RANDOM() LIMIT N.
delete_N_rand(c, picked, fail) == delete_N(c, picked, fail)

(***************************************************************************)
(* Point insert (index_tools.py).                                          *)
(***************************************************************************)
insert_steps == 10

max_of(S) == CHOOSE x \in S : \A y \in S : y <= x

\* COALESCE(MAX(col), 0)
coalesce_max(S) == IF S = {} THEN 0 ELSE max_of(S)

\* A MERGE without its WHEN MATCHED clause: the terms already there keep their df.
merge_dict_not_matched_only(di, src_terms) ==
    LET terms == {s.term : s \in src_terms}
        base  == coalesce_max({d.termid : d \in di})
        seen  == {d.term : d \in di}
    IN  di \cup {[termid |-> base + row_number(terms, t), term |-> t, df |-> 1]
                 : t \in terms \ seen}

\* MERGE INTO my_ducklake.dict: bump df of the terms already there, add the
\* others with df = 1 and termid = MAX(termid) + ROW_NUMBER() OVER (ORDER BY term).
merge_dict(di, src_terms) ==
    LET terms == {s.term : s \in src_terms}
        base  == coalesce_max({d.termid : d \in di})
        seen  == {d.term : d \in di}
    IN  {IF d.term \in terms THEN [d EXCEPT !.df = d.df + 1] ELSE d : d \in di}
        \cup {[termid |-> base + row_number(terms, t), term |-> t, df |-> 1]
              : t \in terms \ seen}

\* MERGE INTO my_ducklake.docs
merge_docs(dc, docid, doc_len) ==
    IF \E d \in dc : d.docid = docid
    THEN {IF d.docid = docid THEN [d EXCEPT !.len = doc_len] ELSE d : d \in dc}
    ELSE dc \cup {[docid |-> docid, len |-> doc_len]}

\* MERGE INTO my_ducklake.postings
merge_postings(po, di, src_terms, docid) ==
    LET src_post == {[termid |-> d.termid, docid |-> docid, tf |-> s.tf]
                     : <<d, s>> \in {x \in di \X src_terms : x[1].term = x[2].term}}
        hit(p)   == {sp \in src_post : sp.termid = p.termid /\ sp.docid = p.docid}
        upd(p)   == IF hit(p) = {} THEN p
                    ELSE [p EXCEPT !.tf = (CHOOSE sp \in hit(p) : TRUE).tf]
        fresh    == {sp \in src_post :
                        ~\E p \in DOMAIN po : p.termid = sp.termid /\ p.docid = sp.docid}
    IN  bag_update(po, [p \in DOMAIN po |-> upd(p)]) (+) SetToBag(fresh)

\* MERGE INTO my_ducklake.data
merge_data(da, docid, doc) ==
    IF \E d \in da : d.docid = docid
    THEN {IF d.docid = docid THEN [d EXCEPT !.content = doc] ELSE d : d \in da}
    ELSE da \cup {[docid |-> docid, content |-> doc]}

the_docid(t) == CHOOSE x \in t.docid_sql : TRUE

insert_stmt(t, doc, docid, k) ==
    LET tokens == TokenizeTable[doc]
    IN  CASE k = 1 -> [t EXCEPT !.src_terms = {}]
          [] k = 2 -> [t EXCEPT !.src_terms =
                          {[term |-> tokens[i], tf |-> Counter(tokens, tokens[i])]
                           : i \in 1..Len(tokens)}]
          [] k = 3 -> [t EXCEPT !.docid_sql =
                          {IF docid # None THEN docid
                           ELSE coalesce_max({d.docid : d \in t.docs}) + 1}]
          [] k = 4 -> [t EXCEPT !.dict = merge_dict(t.dict, t.src_terms)]
          [] k = 5 -> [t EXCEPT !.docs = merge_docs(t.docs, the_docid(t), Len(tokens))]
          [] k = 6 -> [t EXCEPT !.postings =
                          merge_postings(t.postings, t.dict, t.src_terms, the_docid(t))]
          [] k = 7 -> [t EXCEPT !.data = merge_data(t.data, the_docid(t), doc)]
          [] k = 8 -> t
          [] k = 9 -> [t EXCEPT !.src_terms = {}]
          [] k = 10 -> [t EXCEPT !.docid_sql = {}]

RECURSIVE insert_run(_, _, _, _)
insert_run(t, doc, docid, k) ==
    IF k = 0 THEN t ELSE insert_stmt(insert_run(t, doc, docid, k - 1), doc, docid, k)

insert(c, doc, docid, fail) ==
    IF TokenizeTable[doc] = <<>> THEN Return(c, OK, None)
    ELSE
    LET b == BEGIN(c)
    IN  IF b.exc # OK THEN b
        ELSE LET n == IF fail = 0 THEN insert_steps ELSE fail - 1
                 w == [b.conn EXCEPT !.cur = insert_run(b.conn.cur, doc, docid, n)]
             IN  IF fail # 0 THEN except_rollback(w, BackingStoreError)
                 ELSE LET final_docid == the_docid(insert_run(b.conn.cur, doc, docid, 8))
                          cm == COMMIT(w)
                      IN  IF cm.exc # OK THEN except_rollback(cm.conn, cm.exc)
                          ELSE Return(cm.conn, OK, final_docid)

(***************************************************************************)
(* modify (index_tools.py): BEGIN, delete, insert, COMMIT.                 *)
(***************************************************************************)
\* fail = 0: no statement fails; otherwise the fail-th statement of the
\* whole call raises, counting delete's statements and COMMIT, then
\* insert's statements and COMMIT, then modify's own COMMIT.
modify_steps == (delete_steps + 1) + (insert_steps + 1)

modify(c, docid, content, fail) ==
    LET fd == IF fail \in 1..(delete_steps + 1) THEN fail ELSE 0
        fi == IF fail \in (delete_steps + 2)..modify_steps
              THEN fail - (delete_steps + 1) ELSE 0
        b  == BEGIN(c)
    IN  IF b.exc # OK THEN b
        ELSE LET d == delete(b.conn, docid, fd)
             IN  IF d.exc # OK THEN except_rollback(d.conn, d.exc)
                 ELSE LET i == insert(d.conn, content, docid, fi)
                      IN  IF i.exc # OK THEN except_rollback(i.conn, i.exc)
                          ELSE IF fail = modify_steps + 1
                               THEN except_rollback(i.conn, BackingStoreError)
                               ELSE LET cm == COMMIT(i.conn)
                                    IN  IF cm.exc # OK
                                        THEN except_rollback(cm.conn, cm.exc)
                                        ELSE Return(cm.conn, OK, i.ret)

(***************************************************************************)
(* The earlier revision of the point updates (update_tools.py).            *)
(***************************************************************************)
\* _next_id: COALESCE(MAX(col) + 1, 1)
next_id(S) == IF S = {} THEN 1 ELSE max_of(S) + 1

\* _exists: SELECT 1 FROM table WHERE docid = ? LIMIT 1
exists(rows, docid) == \E r \in rows : r.docid = docid

\* get_termid: the termid of the dict row with this term, None without one.
get_termid(di, term) ==
    IF \E d \in di : d.term = term
    THEN (CHOOSE d \in di : d.term = term).termid
    ELSE None

ut_delete_steps == 5

ut_delete_stmt(t, docid, k) ==
    LET touched == {p.termid : p \in {q \in DOMAIN t.postings : q.docid = docid}}
    IN  CASE k = 1 -> [t EXCEPT !.dict =
                          {IF d.termid \in touched
                           THEN [d EXCEPT !.df = IF d.df > 0 THEN d.df - 1 ELSE 0]
                           ELSE d : d \in t.dict}]
          [] k = 2 -> [t EXCEPT !.dict =
                          {d \in t.dict : ~(d.df = 0 /\ d.termid \in touched)}]
          [] k = 3 -> [t EXCEPT !.postings =
                          bag_keep(t.postings, {p \in DOMAIN t.postings : p.docid # docid})]
          [] k = 4 -> [t EXCEPT !.docs = {d \in t.docs : d.docid # docid}]
          [] k = 5 -> [t EXCEPT !.data = {d \in t.data : d.docid # docid}]

RECURSIVE ut_delete_run(_, _, _)
ut_delete_run(t, docid, k) ==
    IF k = 0 THEN t ELSE ut_delete_stmt(ut_delete_run(t, docid, k - 1), docid, k)

ut_delete(c, docid, fail) ==
    LET b == BEGIN(c)
    IN  IF b.exc # OK THEN b
        ELSE LET n == IF fail = 0 THEN ut_delete_steps ELSE fail - 1
                 w == [b.conn EXCEPT !.cur = ut_delete_run(b.conn.cur, docid, n)]
             IN  IF fail # 0 THEN except_rollback(w, BackingStoreError)
                 ELSE LET cm == COMMIT(w)
                      IN  IF cm.exc # OK THEN except_rollback(cm.conn, cm.exc) ELSE cm

\* One step per distinct term (the dict upsert of that term), then the docs
\* row, the postings rows and the data row.  docid_sql holds the local
\* variable docid once it is resolved.
ut_insert_steps(doc) == Len(DistinctTable[doc]) + 3

ut_insert_stmt(t, doc, docid, k) ==
    LET tokens == TokenizeTable[doc]
        terms  == DistinctTable[doc]
        n      == Len(terms)
    IN  IF k <= n
        THEN LET tid == get_termid(t.dict, terms[k])
             IN  IF tid = None
                 THEN [t EXCEPT !.dict = t.dict \cup
                          {[termid |-> next_id({d.termid : d \in t.dict}),
                            term |-> terms[k], df |-> 1]}]
                 ELSE [t EXCEPT !.dict =
                          {IF d.termid = tid THEN [d EXCEPT !.df = d.df + 1] ELSE d
                           : d \in t.dict}]
        ELSE IF k = n + 1
        THEN IF docid = None
             THEN LET new == next_id({d.docid : d \in t.docs})
                  IN  [t EXCEPT !.docs = t.docs \cup {[docid |-> new, len |-> Len(tokens)]},
                                !.docid_sql = {new}]
             ELSE IF exists(t.docs, docid)
                  THEN [t EXCEPT !.docs = {IF d.docid = docid
                                           THEN [d EXCEPT !.len = Len(tokens)] ELSE d
                                           : d \in t.docs},
                                 !.docid_sql = {docid}]
                  ELSE [t EXCEPT !.docs = t.docs \cup {[docid |-> docid, len |-> Len(tokens)]},
                                 !.docid_sql = {docid}]
        ELSE IF k = n + 2
        THEN [t EXCEPT !.postings = t.postings (+)
                 SetToBag({[termid |-> get_termid(t.dict, terms[i]), docid |-> the_docid(t),
                            tf |-> Counter(tokens, terms[i])] : i \in 1..n})]
        ELSE IF exists(t.data, the_docid(t))
             THEN [t EXCEPT !.data = {IF d.docid = the_docid(t)
                                      THEN [d EXCEPT !.content = doc] ELSE d : d \in t.data}]
             ELSE [t EXCEPT !.data = t.data \cup {[docid |-> the_docid(t), content |-> doc]}]

RECURSIVE ut_insert_run(_, _, _, _)
ut_insert_run(t, doc, docid, k) ==
    IF k = 0 THEN t ELSE ut_insert_stmt(ut_insert_run(t, doc, docid, k - 1), doc, docid, k)

\* tokenize is helper.tokenize here: it hands the content to the spaCy
\* pipeline, which refuses None (ValueError; TypeError in older releases).
\* For the contents of the model its alphabetic tokens are those of WORD_RE.
ut_insert(c, doc, docid, fail) ==
    IF doc = NullContent THEN Return(c, ValueError, None)
    ELSE IF TokenizeTable[doc] = <<>> THEN Return(c, OK, None)
    ELSE
    LET b == BEGIN(c)
    IN  IF b.exc # OK THEN b
        ELSE LET n == IF fail = 0 THEN ut_insert_steps(doc) ELSE fail - 1
                 w == ut_insert_run(b.conn.cur, doc, docid, n)
             IN  IF fail # 0
                 THEN except_rollback([b.conn EXCEPT !.cur = w], BackingStoreError)
                 ELSE LET cm == COMMIT([b.conn EXCEPT !.cur = [w EXCEPT !.docid_sql = {}]])
                      IN  IF cm.exc # OK THEN except_rollback(cm.conn, cm.exc)
                          ELSE Return(cm.conn, OK, the_docid(w))

\* modify: delete(con, docid), then insert(con, content, docid=docid), each
\* in its own transaction.  fail counts delete's statements and COMMIT, then
\* insert's.
ut_modify(c, docid, content, fail) ==
    LET fd == IF fail \in 1..(ut_delete_steps + 1) THEN fail ELSE 0
        fi == IF fail > ut_delete_steps + 1 THEN fail - (ut_delete_steps + 1) ELSE 0
        d  == ut_delete(c, docid, fd)
    IN  IF d.exc # OK THEN d ELSE ut_insert(d.conn, content, docid, fi)

(***************************************************************************)
(* Queries (helper_functions.py, fts_tools.py).                            *)
(***************************************************************************)
\* tokenize_query: the termid of every token that dict knows, in order.
tokenize_query(di, query) ==
    LET tokens == TokenizeTable[query]
        RECURSIVE walk(_, _)
        walk(i, acc) ==
            IF i > Len(tokens) THEN acc
            ELSE walk(i + 1, IF get_termid(di, tokens[i]) # None
                             THEN Append(acc, get_termid(di, tokens[i])) ELSE acc)
    IN  walk(1, <<>>)

\* TEMP TABLE query_terms after the executemany: one row per list element.
query_terms(termids) ==
    [tid \in {termids[i] : i \in 1..Len(termids)} |->
        Cardinality({i \in 1..Len(termids) : termids[i] = tid})]

\* term_hits: postings JOIN docs ON docid, for the termids of query_terms.
term_hits(t, qt) ==
    {h \in (DOMAIN t.postings) \X t.docs :
        h[1].docid = h[2].docid /\ h[1].termid \in DOMAIN qt}

\* conjunctive_documents: GROUP BY docid
\* HAVING COUNT(DISTINCT termid) = (SELECT COUNT(*) FROM query_terms)
conjunctive_documents(t, qt) ==
    LET hits == term_hits(t, qt)
    IN  {docid \in {h[1].docid : h \in hits} :
            Cardinality({h[1].termid : h \in {x \in hits : x[1].docid = docid}})
                = BagCardinality(qt)}

\* idf_table: the dict rows of the query's termids.  ln() of a number that
\* is not positive is an error: (N - df + 0.5) / (df + 0.5) <= 0 iff df > N.
idf_table(t, qt) == {d \in t.dict : d.termid \in DOMAIN qt}

idf_out_of_range(t, qt) == \E d \in idf_table(t, qt) : d.df > Cardinality(t.docs)

\* DROP TABLE IF EXISTS query_terms
drop_query_terms(c) == execute(c, [c.cur EXCEPT !.query_terms = NoTable])

\* CREATE TEMP TABLE query_terms(termid BIGINT)
create_query_terms(c) ==
    execute(c, [c.cur EXCEPT !.query_terms = [exists |-> TRUE, rows |-> EmptyBag]])

\* con.executemany("INSERT INTO query_terms VALUES (?)", ...)
insert_query_terms(c, termids) ==
    execute(c, [c.cur EXCEPT !.query_terms.rows = query_terms(termids)])

\* The statements that stage the termids of a query.
stage_query_terms(c, termids) ==
    insert_query_terms(create_query_terms(drop_query_terms(c)), termids)

\* GROUP BY th.docid with every row that has this docid in one group.
group_per_hit(joined) ==
    [docid \in {h[1].docid : h \in joined} |->
        Cardinality({h \in joined : h[1].docid = docid})]

\* scored: GROUP BY th.docid gives one row for each docid of the joined rows.
group_by_docid(joined) == [docid \in {h[1].docid : h \in joined} |-> 1]

\* term_hits JOIN idf_table ON idf_table.termid = th.termid
join_idf(hits, idf) ==
    {<<h[1], d>> : <<h, d>> \in {x \in hits \X idf : x[2].termid = x[1][1].termid}}

\* The statements after the guard of conjunctive_bm25: stage the termids,
\* run the SELECT, drop query_terms.  The rows are term_hits JOIN
\* conjunctive_documents JOIN idf_table, GROUP BY docid; with top_n at least
\* the number of these rows, LIMIT keeps them all.  executemany refuses an
\* empty list of parameter sets, and a statement that raises leaves
\* query_terms behind.
conjunctive_query(c, termids, top_n) ==
    LET staged == stage_query_terms(c, termids)
        qt     == staged.cur.query_terms.rows
        cd     == conjunctive_documents(staged.cur, qt)
        hits   == {x \in term_hits(staged.cur, qt) : x[1].docid \in cd}
        scored == group_by_docid(join_idf(hits, idf_table(staged.cur, qt)))
    IN  IF termids = <<>>
        THEN QueryReturn(create_query_terms(drop_query_terms(c)),
                         InvalidInputException, EmptyBag)
        ELSE IF idf_out_of_range(staged.cur, qt)
             THEN QueryReturn(staged, OutOfRangeError, EmptyBag)
        ELSE QueryReturn(drop_query_terms(staged), OK, scored)

\* conjunctive_bm25 without "if not termids: return []".
conjunctive_bm25_unguarded(c, query, top_n) ==
    conjunctive_query(c, tokenize_query(c.cur.dict, query), top_n)

conjunctive_bm25(c, query, top_n) ==
    LET termids == tokenize_query(c.cur.dict, query)
    IN  IF termids = <<>> THEN QueryReturn(c, OK, EmptyBag)
        ELSE conjunctive_query(c, termids, top_n)

\* The statements after the guard of disjunctive_bm25; the rows are
\* term_hits JOIN idf_table, GROUP BY docid.
disjunctive_query(c, termids, top_n) ==
    LET staged == stage_query_terms(c, termids)
        qt     == staged.cur.query_terms.rows
        scored == group_by_docid(join_idf(term_hits(staged.cur, qt),
                                          idf_table(staged.cur, qt)))
    IN  IF termids = <<>>
        THEN QueryReturn(create_query_terms(drop_query_terms(c)),
                         InvalidInputException, EmptyBag)
        ELSE IF idf_out_of_range(staged.cur, qt)
             THEN QueryReturn(staged, OutOfRangeError, EmptyBag)
        ELSE QueryReturn(drop_query_terms(staged), OK, scored)

disjunctive_bm25(c, query, top_n) ==
    LET termids == tokenize_query(c.cur.dict, query)
    IN  IF termids = <<>> THEN QueryReturn(c, OK, EmptyBag)
        ELSE disjunctive_query(c, termids, top_n)

(***************************************************************************)
(* BM25 scores, ORDER BY score DESC and LIMIT (fts_tools.py).              *)
(*                                                                         *)
(* Scores are fixed-point numbers, in millionths.  ln is tabulated in      *)
(* thousandths: N and df being integers, the argument of ln is             *)
(* (2 * (N - df) + 1) / (2 * df + 1), a quotient of two odd numbers.  The  *)
(* tf factor is the exact quotient of the code, avgdl written as S / Nn,   *)
(* rounded down to thousandths.                                            *)
(***************************************************************************)
\* K1 = 1.2 in tenths, B = 0.75 in hundredths.
K1 == 12
B == 75

\* round(1000 * ln(k)) for odd k.
ln_milli(k) ==
    CASE k = 1 -> 0
      [] k = 3 -> 1099
      [] k = 5 -> 1609
      [] k = 7 -> 1946
      [] k = 9 -> 2197
      [] k = 11 -> 2398
      [] k = 13 -> 2565

RECURSIVE sum_len(_)
sum_len(D) ==
    IF D = {} THEN 0
    ELSE LET d == CHOOSE x \in D : TRUE IN d.len + sum_len(D \ {d})

\* The count of docs taken over the documents that have a postings row.
corpus_stats_of_postings(t) ==
    LET known == {d \in t.docs : d.len # NULL}
    IN  [N |-> Cardinality({p.docid : p \in DOMAIN t.postings}),
         S |-> sum_len(known), Nn |-> Cardinality(known)]

\* corpus_stats: COUNT(*) AS N and AVG(d.len) AS avgdl over docs.  AVG skips
\* the rows whose len is NULL: avgdl = S / Nn.
corpus_stats(t) ==
    LET known == {d \in t.docs : d.len # NULL}
    IN  [N |-> Cardinality(t.docs), S |-> sum_len(known), Nn |-> Cardinality(known)]

\* ln((stats.N - dict.df + 0.5) / (dict.df + 0.5)), in thousandths.
idf(stats, df) == ln_milli(2 * (stats.N - df) + 1) - ln_milli(2 * df + 1)

\* ((K1 + 1) * tf) / (tf + K1 * (1 - B + B * (len / avgdl))), in thousandths.
tf_factor(stats, tf, len) ==
    (1000 * 100 * (K1 + 10) * tf * stats.S)
        \div (1000 * tf * stats.S + K1 * ((100 - B) * stats.S + B * len * stats.Nn))

\* SUM(idf * tf factor) over the rows J of term_hits JOIN idf_table that the
\* bag of postings po holds.
RECURSIVE sum_bm25(_, _, _)
sum_bm25(J, po, stats) ==
    IF J = {} THEN 0
    ELSE LET j == CHOOSE x \in J : TRUE
         IN  po[j.p] * idf(stats, j.d.df) * tf_factor(stats, j.p.tf, j.len)
             + sum_bm25(J \ {j}, po, stats)

\* The join on docid keeps, of each document, only the rows of its smallest
\* termid.
hits_of_one_term(t, qt) ==
    {x \in term_hits(t, qt) :
        /\ x[1].docid \in conjunctive_documents(t, qt)
        /\ \A y \in term_hits(t, qt) : y[1].docid = x[1].docid => x[1].termid <= y[1].termid}

\* term_hits AS th JOIN conjunctive_documents AS cd ON cd.docid = th.docid
conjunctive_hits(t, qt) ==
    {x \in term_hits(t, qt) : x[1].docid \in conjunctive_documents(t, qt)}

\* The rows that scored sums: term_hits (joined with conjunctive_documents in
\* the conjunctive mode) JOIN idf_table ON termid.  p is the postings row,
\* len the len of its document, d the dict row.
contributions(t, qt, qtype) ==
    LET hits == IF qtype = "conjunctive" THEN conjunctive_hits(t, qt) ELSE term_hits(t, qt)
    IN  {[p |-> x[1][1], len |-> x[1][2].len, d |-> x[2]]
         : x \in {y \in hits \X idf_table(t, qt) : y[2].termid = y[1][1].termid}}

\* scored: one row (docid, score) for each docid of the joined rows.
scored(t, qt, qtype) ==
    LET joined == contributions(t, qt, qtype)
        stats  == corpus_stats(t)
    IN  {[docid |-> docid,
          score |-> sum_bm25({j \in joined : j.p.docid = docid}, t.postings, stats)]
         : docid \in {j.p.docid : j \in joined}}

\* The rows in any order: ORDER BY left out.
order_by_nothing(rows) ==
    {s \in [1..Cardinality(rows) -> rows] :
        \A i \in DOMAIN s, j \in DOMAIN s : i # j => s[i] # s[j]}

\* ORDER BY score DESC without LIMIT: any order of the rows in which
\* no score is followed by a greater one.
order_by_score_desc(rows) ==
    {s \in [1..Cardinality(rows) -> rows] :
        /\ \A i \in DOMAIN s, j \in DOMAIN s : i # j => s[i] # s[j]
        /\ \A i \in DOMAIN s, j \in DOMAIN s : i < j => s[i].score >= s[j].score}

\* LIMIT top_n
limit_rows(s, top_n) == SubSeq(s, 1, IF top_n < Len(s) THEN top_n ELSE Len(s))

\* ORDER BY score DESC LIMIT top_n: the lists that the SELECT may return.
order_by_score_desc_limit(rows, top_n) ==
    {limit_rows(s, top_n) : s \in order_by_score_desc(rows)}

\* The statements after the guard of either query function, the list of
\* (docid, score) kept as the code returns it.
bm25_rows_query(c, termids, top_n, qtype) ==
    LET staged == stage_query_terms(c, termids)
        qt     == staged.cur.query_terms.rows
    IN  IF idf_out_of_range(staged.cur, qt)
        THEN {QueryReturn(staged, OutOfRangeError, <<>>)}
        ELSE {QueryReturn(drop_query_terms(staged), OK, rows)
              : rows \in order_by_score_desc_limit(scored(staged.cur, qt, qtype), top_n)}

\* conjunctive_bm25 and disjunctive_bm25 with the list of (docid, score).
bm25_rows(c, query, top_n, qtype) ==
    LET termids == tokenize_query(c.cur.dict, query)
    IN  IF termids = <<>> THEN {QueryReturn(c, OK, <<>>)}
        ELSE bm25_rows_query(c, termids, top_n, qtype)

(***************************************************************************)
(* State: the committed tables and the last call made on the connection.   *)
(***************************************************************************)
\* A call on the connection: the operation, its docid argument (None when
\* there is none), its N or top_n, and the query text of a query.
Call(op, docid, content, n) == [op |-> op, docid |-> docid, N |-> n, query |-> NullContent]

QueryCall(op, query, top_n) == [op |-> op, docid |-> None, N |-> top_n, query |-> query]

\* The model stays within its bounds.
WithinBounds(t) ==
    /\ \A d \in t.docs : d.docid <= MaxDocid
    /\ \A d \in t.dict : d.termid <= MaxTermid /\ d.df <= MaxDf

\* The handler returned (or raised): the connection's committed tables are
\* what every later call sees.
commits(r, call) ==
    /\ ~r.conn.inTx
    /\ WithinBounds(r.conn.committed)
    /\ dict' = r.conn.committed.dict
    /\ docs' = r.conn.committed.docs
    /\ postings' = r.conn.committed.postings
    /\ data' = r.conn.committed.data
    /\ temp' = r.conn.committed.query_terms
    /\ last' = [call |-> call, exc |-> r.exc, ret |-> r.ret, rows |-> r.rows]
    /\ perf' = perf
    /\ qry' = qry
    /\ tok' = tok

\* given: the documents handed to insert, one by one, since the index was
\* empty; it is recorded by do_insert_given only.
\* trip: the run of test.py's insert and cleanup steps under way, recorded
\* by do_insert_doc and do_delete_doc only.
returns(r, call) == commits(r, call) /\ given' = given /\ trip' = trip

\* No run under way.
NoTrip ==
    [open |-> FALSE,
     base |-> [dict |-> {}, docs |-> {}, postings |-> EmptyBag, data |-> {}],
     pending |-> <<>>, inserted |-> {}]

con == connect([Tables(dict, docs, postings, data) EXCEPT !.query_terms = temp])

\* No text is being tokenized.
NoText == [text |-> NullContent, tokenized |-> FALSE, extracted |-> FALSE,
           tokens |-> <<>>, stream |-> <<>>]

\* The callers that share the connection for their queries.
Callers == 1..2

\* No query is under way.
NoQueries ==
    [p \in Callers |-> [pc |-> "idle", qtype |-> "disjunctive", query |-> NullContent,
                        termids |-> <<>>, exc |-> OK, rows |-> EmptyBag]]

\* The delete-and-measure loop is not running.
NoPerf ==
    [pc |-> "idle", original_count |-> 0, delete_batch |-> 0, checkpoint_pct |-> 0,
     random |-> FALSE, qtype |-> "disjunctive", iteration |-> 0, docs_remaining |-> 0,
     pct_deleted |-> 0, next_checkpoint_pct |-> 0, fired |-> <<>>]

\* run_initialise: initialise_data, then reindex.
Init ==
    \E da \in InitData :
        LET r == reindex(connect(Tables({}, {}, EmptyBag, da)), 0)
        IN  /\ dict = r.conn.committed.dict
            /\ docs = r.conn.committed.docs
            /\ postings = r.conn.committed.postings
            /\ data = da
            /\ temp = NoTable
            /\ given = {}
            /\ trip = NoTrip
            /\ perf = NoPerf
            /\ qry = NoQueries
            /\ tok = NoText
            /\ last = [call |-> Call("reindex", None, NullContent, 0), exc |-> r.exc,
                       ret |-> None, rows |-> EmptyBag]

\* Each action takes the set F of statements at which the backing store may
\* fail during the call (0: no statement fails).  delete is also called with
\* a docid that no document ever has, MaxDocid + 1.
do_reindex(F) ==
    \E fail \in F \cap (0..(build_steps + import_steps + 1)) :
        returns(reindex(con, fail), Call("reindex", None, NullContent, 0))

do_build_and_import_from_ducklake(F) ==
    \E fail \in F \cap (0..legacy_import_steps), rows \in fetch_data_df(data) :
        returns(build_and_import_from_ducklake(con, rows, fail),
                Call("build_and_import_from_ducklake", None, NullContent, 0))

do_delete(F) ==
    \E docid \in Docids \cup {MaxDocid + 1}, fail \in F \cap (0..(delete_steps + 1)) :
        returns(delete(con, docid, fail), Call("delete", docid, NullContent, 0))

do_delete_N(F) ==
    \E N \in 0..MaxN, fail \in F \cap (0..(delete_N_steps + 1)) :
        \E picked \in limit(docs, N) :
            returns(delete_N(con, picked, fail), Call("delete_N", None, NullContent, N))

do_delete_N_rand(F) ==
    \E N \in 0..MaxN, fail \in F \cap (0..(delete_N_steps + 1)) :
        \E picked \in limit(docs, N) :
            returns(delete_N_rand(con, picked, fail),
                    Call("delete_N_rand", None, NullContent, N))

\* insert of the next document (docid, content) of a list, the first one
\* into an empty index and an empty data table; an insert that raised is
\* not counted.
do_insert_given(F) ==
    \E doc \in Contents, docid \in Docids, fail \in F \cap (0..(insert_steps + 1)) :
        /\ ~exists(given, docid)
        /\ given = {} => (dict = {} /\ docs = {} /\ postings = EmptyBag /\ data = {})
        /\ LET r == insert(con, doc, docid, fail)
           IN  /\ commits(r, Call("insert", docid, doc, 0))
               /\ given' = IF r.exc = OK
                           THEN given \cup {[docid |-> docid, content |-> doc]}
                           ELSE given
               /\ trip' = trip

\* The steps of run_tests: the baseline is read, then doc1_id = insert(doc1)
\* and doc2_id = insert(doc2); trip.base is the baseline, trip.pending the
\* docids returned and not None.
MaxInserts == 2

do_insert_doc ==
    \E doc \in Contents :
        LET r == insert(con, doc, None, 0)
        IN  /\ Cardinality(trip.inserted) = Len(trip.pending)
            /\ Cardinality(trip.inserted) < MaxInserts
            /\ commits(r, Call("insert", None, doc, 0))
            /\ given' = given
            /\ trip' = [open |-> TRUE,
                        base |-> IF trip.open THEN trip.base
                                 ELSE [dict |-> dict, docs |-> docs,
                                       postings |-> postings, data |-> data],
                        pending |-> IF r.ret = None THEN trip.pending
                                    ELSE Append(trip.pending, r.ret),
                        inserted |-> IF r.ret = None THEN trip.inserted
                                     ELSE trip.inserted \cup {[docid |-> r.ret, content |-> doc]}]

\* The docids of the rows, in ascending order.
RECURSIVE docid_seq(_)
docid_seq(rows) ==
    IF rows = {} THEN <<>>
    ELSE LET m == CHOOSE r \in rows : \A x \in rows : r.docid <= x.docid
         IN  <<m.docid>> \o docid_seq({x \in rows : x.docid # m.docid})

\* reindex, every document of the rebuilt index then waiting for its
\* delete: trip.base is the rebuilt index, trip.pending its docids.
do_reindex_docs ==
    LET r == reindex(con, 0)
    IN  /\ ~trip.open
        /\ commits(r, Call("reindex", None, NullContent, 0))
        /\ given' = given
        /\ trip' = [open |-> TRUE,
                    base |-> [dict |-> r.conn.committed.dict, docs |-> r.conn.committed.docs,
                              postings |-> r.conn.committed.postings,
                              data |-> r.conn.committed.data],
                    pending |-> docid_seq(r.conn.committed.docs),
                    inserted |-> {}]

\* T8: the cleanup deletes each returned docid that is not None.
do_delete_doc ==
    \E i \in 1..Len(trip.pending) :
        /\ commits(delete(con, trip.pending[i], 0), Call("delete", trip.pending[i], NullContent, 0))
        /\ given' = given
        /\ trip' = [trip EXCEPT !.pending =
                        SubSeq(trip.pending, 1, i - 1) \o SubSeq(trip.pending, i + 1, Len(trip.pending))]

\* D: the docid arguments the caller passes (None: docid left out).
do_insert(F, D) ==
    \E doc \in Contents, docid \in D, fail \in F \cap (0..(insert_steps + 1)) :
        returns(insert(con, doc, docid, fail), Call("insert", docid, doc, 0))

do_modify(F) ==
    \E docid \in Docids, content \in Contents, fail \in F \cap (0..(modify_steps + 1)) :
        returns(modify(con, docid, content, fail), Call("modify", docid, content, 0))

do_ut_delete(F) ==
    \E docid \in Docids, fail \in F \cap (0..(ut_delete_steps + 1)) :
        returns(ut_delete(con, docid, fail), Call("ut_delete", docid, NullContent, 0))

do_ut_insert(F) ==
    \E doc \in Contents, docid \in Docids \cup {None} :
        \E fail \in F \cap (0..(ut_insert_steps(doc) + 1)) :
            returns(ut_insert(con, doc, docid, fail), Call("ut_insert", docid, doc, 0))

do_ut_modify(F) ==
    \E docid \in Docids, content \in Contents :
        \E fail \in F \cap (0..(ut_delete_steps + ut_insert_steps(content) + 2)) :
            returns(ut_modify(con, docid, content, fail),
                    Call("ut_modify", docid, content, 0))

do_conjunctive_bm25 ==
    \E query \in Queries, top_n \in MaxDocid..MaxDocid :
        returns(conjunctive_bm25(con, query, top_n),
                QueryCall("conjunctive_bm25", query, top_n))

do_disjunctive_bm25 ==
    \E query \in Queries, top_n \in MaxDocid..MaxDocid :
        returns(disjunctive_bm25(con, query, top_n),
                QueryCall("disjunctive_bm25", query, top_n))

\* A query that returns its list of (docid, score); top_n may be smaller
\* than the number of candidates.
TopNs == 0..MaxDocid

do_bm25_rows ==
    \E query \in Queries, top_n \in TopNs, qtype \in {"conjunctive", "disjunctive"} :
        \E r \in bm25_rows(con, query, top_n, qtype) :
            returns(r, QueryCall(IF qtype = "conjunctive" THEN "conjunctive_bm25"
                                 ELSE "disjunctive_bm25", query, top_n))

(***************************************************************************)
(* The delete-and-measure loop (performance_testing.main and               *)
(* dynamic_index.run_performance_test).                                    *)
(*                                                                         *)
(* perf.pc is the position in the loop; perf.fired lists the checkpoints   *)
(* requested, each with the threshold it fired against and the iteration.  *)
(* Percentages are kept exact: perf.pct_deleted is the numerator of        *)
(* pct_deleted over original_count, and a threshold t is compared as       *)
(* t * original_count.  For the corpora of the model (and up to 19         *)
(* documents) the float expressions of the code give the same comparisons. *)
(***************************************************************************)
MaxOriginal == 4
MaxIterations == 6
DeleteBatches == 0..2
CheckpointPcts == {0, 25, 50}

\* my_ducklake.data with o documents.
PerfData(o) == {[docid |-> d, content |-> IF d % 2 = 1 THEN doc1 ELSE doc2] : d \in 1..o}

\* The queries of the run (generate_random_queries or a reused file).
PerfQueries == <<q_ab, q_c>>

get_docid_count(dc) == Cardinality(dc)

\* average_bm25_sql_time: run_bm25_query for each query, on one connection.
RECURSIVE average_bm25_sql_time(_, _, _, _)
average_bm25_sql_time(c, queries, top_n, qtype) ==
    IF queries = <<>> THEN QueryReturn(c, OK, EmptyBag)
    ELSE LET r == IF qtype = "conjunctive"
                  THEN conjunctive_bm25(c, Head(queries), top_n)
                  ELSE disjunctive_bm25(c, Head(queries), top_n)
         IN  IF r.exc # OK THEN r
             ELSE average_bm25_sql_time(r.conn, Tail(queries), top_n, qtype)

\* pct_deleted = 100.0 - docs_remaining / original_count * 100.0, as the
\* numerator over original_count.
pct_deleted(docs_remaining, original_count) == 100 * (original_count - docs_remaining)

\* The threshold left as it is after a checkpoint (a one-shot schedule).
keep_threshold(next_checkpoint_pct, checkpoint_pct) == next_checkpoint_pct

\* next_checkpoint_pct += args.checkpoint_pct
next_threshold(next_checkpoint_pct, checkpoint_pct) == next_checkpoint_pct + checkpoint_pct

\* if args.checkpoint_pct > 0 and pct_deleted >= next_checkpoint_pct
checkpoint_due(p) ==
    /\ p.checkpoint_pct > 0
    /\ p.pct_deleted >= p.next_checkpoint_pct * p.original_count

\* The loop entered whenever a document is left.
loop_while_positive(p) == p.docs_remaining > 0

\* while docs_remaining >= args.delete_batch
loop_condition(p) == p.docs_remaining >= p.delete_batch

\* What a step of the loop leaves on the connection.
perf_commits(r, call) ==
    /\ ~r.conn.inTx
    /\ dict' = r.conn.committed.dict
    /\ docs' = r.conn.committed.docs
    /\ postings' = r.conn.committed.postings
    /\ data' = r.conn.committed.data
    /\ temp' = r.conn.committed.query_terms
    /\ last' = [call |-> call, exc |-> r.exc, ret |-> r.ret, rows |-> r.rows]
    /\ given' = given
    /\ trip' = trip
    /\ qry' = qry
    /\ tok' = tok

\* main up to the loop: reindex, original_count, the arguments.
InitPerf ==
    \E o \in 0..MaxOriginal, batch \in DeleteBatches, pct \in CheckpointPcts,
       rnd \in BOOLEAN, qt \in {"conjunctive", "disjunctive"} :
        LET r == reindex(connect(Tables({}, {}, EmptyBag, PerfData(o))), 0)
            n == get_docid_count(r.conn.committed.docs)
        IN  /\ dict = r.conn.committed.dict
            /\ docs = r.conn.committed.docs
            /\ postings = r.conn.committed.postings
            /\ data = PerfData(o)
            /\ temp = NoTable
            /\ given = {}
            /\ trip = NoTrip
            /\ qry = NoQueries
            /\ tok = NoText
            /\ last = [call |-> Call("reindex", None, NullContent, 0), exc |-> r.exc,
                       ret |-> None, rows |-> EmptyBag]
            /\ perf = [pc |-> IF n = 0 THEN "exit" ELSE "while",
                       original_count |-> n, delete_batch |-> batch,
                       checkpoint_pct |-> pct, random |-> rnd, qtype |-> qt,
                       iteration |-> 0, docs_remaining |-> n, pct_deleted |-> 0,
                       next_checkpoint_pct |-> pct, fired |-> <<>>]

\* while docs_remaining >= args.delete_batch: the iteration is counted,
\* pct_deleted is computed, the queries are timed and the row is logged.
\* The model follows a loop that does not end for MaxIterations iterations.
perf_measure ==
    /\ perf.pc = "while"
    /\ loop_condition(perf)
    /\ perf.iteration < MaxIterations
    /\ LET r == average_bm25_sql_time(con, PerfQueries, MaxOriginal, perf.qtype)
       IN  /\ perf_commits(r, QueryCall("average_bm25_sql_time", NullContent, MaxOriginal))
           /\ perf' = [perf EXCEPT
                          !.pc = IF r.exc = OK THEN "delete" ELSE "raised",
                          !.iteration = @ + 1,
                          !.pct_deleted = pct_deleted(perf.docs_remaining, perf.original_count)]

\* delete_N_rand(con, args.delete_batch) or delete_N(con, args.delete_batch)
perf_delete ==
    /\ perf.pc = "delete"
    /\ \E picked \in limit(docs, perf.delete_batch) :
          LET r == IF perf.random THEN delete_N_rand(con, picked, 0)
                   ELSE delete_N(con, picked, 0)
          IN  /\ perf_commits(r, Call(IF perf.random THEN "delete_N_rand" ELSE "delete_N",
                                      None, NullContent, perf.delete_batch))
              /\ perf' = [perf EXCEPT !.pc = IF r.exc = OK THEN "checkpoint" ELSE "raised"]

\* The checkpoint test, the checkpoint request when it is due, and
\* docs_remaining = get_docid_count(con).
after_checkpoint(p, dc) ==
    [p EXCEPT
        !.pc = "while",
        !.fired = IF checkpoint_due(p)
                  THEN Append(@, [threshold |-> p.next_checkpoint_pct,
                                  iteration |-> p.iteration])
                  ELSE @,
        !.next_checkpoint_pct =
            IF checkpoint_due(p) THEN next_threshold(@, p.checkpoint_pct) ELSE @,
        !.docs_remaining = get_docid_count(dc)]

perf_checkpoint ==
    /\ perf.pc = "checkpoint"
    /\ perf' = after_checkpoint(perf, docs)
    /\ UNCHANGED <<dict, docs, postings, data, temp, given, trip, qry, tok, last>>

\* The loop condition is false: the test is complete.
perf_complete ==
    /\ perf.pc = "while"
    /\ ~loop_condition(perf)
    /\ perf' = [perf EXCEPT !.pc = "done"]
    /\ UNCHANGED <<dict, docs, postings, data, temp, given, trip, qry, tok, last>>

NextPerf ==
    \/ perf_measure
    \/ perf_delete
    \/ perf_checkpoint
    \/ perf_complete

SpecPerf == InitPerf /\ [][NextPerf]_vars

\* The loop as the interpreter runs it: a statement that can be executed is
\* executed.  perf_advances is the step of NextPerf seen on perf alone (what
\* the step does to the tables left open), so that its enabling condition
\* is the position in the loop.
perf_advances ==
    \/ /\ perf.pc = "while"
       /\ loop_condition(perf)
       /\ perf.iteration < MaxIterations
       /\ \E pc \in {"delete", "raised"} :
             perf' = [perf EXCEPT
                         !.pc = pc,
                         !.iteration = @ + 1,
                         !.pct_deleted = pct_deleted(perf.docs_remaining, perf.original_count)]
    \/ /\ perf.pc = "while"
       /\ ~loop_condition(perf)
       /\ perf' = [perf EXCEPT !.pc = "done"]
    \/ /\ perf.pc = "delete"
       /\ \E pc \in {"checkpoint", "raised"} : perf' = [perf EXCEPT !.pc = pc]
    \/ /\ perf.pc = "checkpoint"
       /\ perf' = after_checkpoint(perf, docs)

SpecLoop == SpecPerf /\ WF_perf(perf_advances)

(***************************************************************************)
(* Two callers run a query each on the same connection, statement by       *)
(* statement (fts_tools.py).  qry[p].pc is the statement that caller p     *)
(* executes next; temp is the connection's TEMP TABLE query_terms.         *)
(***************************************************************************)
\* The rows of the SELECT, query_terms holding the bag qt.
select_scored(t, qt, qtype) ==
    LET cd   == conjunctive_documents(t, qt)
        hits == IF qtype = "conjunctive"
                THEN {x \in term_hits(t, qt) : x[1].docid \in cd}
                ELSE term_hits(t, qt)
    IN  group_by_docid(join_idf(hits, idf_table(t, qt)))

InitQueries ==
    \E da \in InitData, qa \in {q_ab, q_c},
       ta \in {"conjunctive", "disjunctive"}, tb \in {"conjunctive", "disjunctive"} :
        LET r  == reindex(connect(Tables({}, {}, EmptyBag, da)), 0)
            qb == IF qa = q_ab THEN q_c ELSE q_ab
        IN  /\ dict = r.conn.committed.dict
            /\ docs = r.conn.committed.docs
            /\ postings = r.conn.committed.postings
            /\ data = da
            /\ temp = NoTable
            /\ given = {}
            /\ trip = NoTrip
            /\ perf = NoPerf
            /\ tok = NoText
            /\ qry = [p \in Callers |->
                         [pc |-> "tokenize_query", qtype |-> IF p = 1 THEN ta ELSE tb,
                          query |-> IF p = 1 THEN qa ELSE qb,
                          termids |-> <<>>, exc |-> OK, rows |-> EmptyBag]]
            /\ last = [call |-> Call("reindex", None, NullContent, 0), exc |-> r.exc,
                       ret |-> None, rows |-> EmptyBag]

\* termids = tokenize_query(con, query); if not termids: return []
query_tokenize(p) ==
    /\ qry[p].pc = "tokenize_query"
    /\ LET termids == tokenize_query(dict, qry[p].query)
       IN  qry' = [qry EXCEPT ![p].termids = termids,
                              ![p].pc = IF termids = <<>> THEN "returned" ELSE "DROP"]
    /\ UNCHANGED <<dict, docs, postings, data, temp, given, trip, perf, tok, last>>

\* con.execute("DROP TABLE IF EXISTS query_terms"), before and after the SELECT
query_drop(p) ==
    /\ qry[p].pc \in {"DROP", "DROP after"}
    /\ temp' = NoTable
    /\ qry' = [qry EXCEPT ![p].pc = IF qry[p].pc = "DROP" THEN "CREATE" ELSE "returned"]
    /\ UNCHANGED <<dict, docs, postings, data, given, trip, perf, tok, last>>

\* con.execute("CREATE TEMP TABLE query_terms(termid BIGINT)"): an error
\* when the table exists.
query_create(p) ==
    /\ qry[p].pc = "CREATE"
    /\ IF temp.exists
       THEN /\ qry' = [qry EXCEPT ![p].pc = "raised", ![p].exc = CatalogException]
            /\ temp' = temp
       ELSE /\ qry' = [qry EXCEPT ![p].pc = "INSERT"]
            /\ temp' = [exists |-> TRUE, rows |-> EmptyBag]
    /\ UNCHANGED <<dict, docs, postings, data, given, trip, perf, tok, last>>

\* con.executemany("INSERT INTO query_terms VALUES (?)", ...): the rows are
\* added to those the table holds; an error when there is no table.
query_insert(p) ==
    /\ qry[p].pc = "INSERT"
    /\ IF ~temp.exists
       THEN /\ qry' = [qry EXCEPT ![p].pc = "raised", ![p].exc = CatalogException]
            /\ temp' = temp
       ELSE /\ qry' = [qry EXCEPT ![p].pc = "SELECT"]
            /\ temp' = [temp EXCEPT !.rows = @ (+) query_terms(qry[p].termids)]
    /\ UNCHANGED <<dict, docs, postings, data, given, trip, perf, tok, last>>

\* rows = con.execute("WITH ... SELECT docid, score ...").fetchall()
query_select(p) ==
    /\ qry[p].pc = "SELECT"
    /\ LET t == Tables(dict, docs, postings, data)
       IN  qry' = IF ~temp.exists
                  THEN [qry EXCEPT ![p].pc = "raised", ![p].exc = CatalogException]
                  ELSE IF idf_out_of_range(t, temp.rows)
                  THEN [qry EXCEPT ![p].pc = "raised", ![p].exc = OutOfRangeError]
                  ELSE [qry EXCEPT ![p].pc = "DROP after",
                                   ![p].rows = select_scored(t, temp.rows, qry[p].qtype)]
    /\ UNCHANGED <<dict, docs, postings, data, temp, given, trip, perf, tok, last>>

NextQueries ==
    \E p \in Callers :
        \/ query_tokenize(p)
        \/ query_drop(p)
        \/ query_create(p)
        \/ query_insert(p)
        \/ query_select(p)

SpecQueries == InitQueries /\ [][NextQueries]_vars

(***************************************************************************)
(* One text through the two tokenizations: tokenize (maintainer and query  *)
(* engine) and the v_token_stream of the rebuild.                          *)
(***************************************************************************)
MaxLen == 3
Chars == {"a", "B", " ", "4", KelvinSign, DottedI, EAcute}
Texts == UNION {[1..n -> Chars] : n \in 0..MaxLen} \cup {NullContent}

\* UNNEST(regexp_extract_all(lower(content), '[a-z]+')) AS term, in order;
\* a NULL content gives no row.
unnest_extract_all(content) ==
    IF content = NullContent THEN <<>> ELSE regexp_extract_all(content)

InitText ==
    \E text \in Texts :
        /\ dict = {} /\ docs = {} /\ postings = EmptyBag /\ data = {}
        /\ temp = NoTable
        /\ given = {}
        /\ trip = NoTrip
        /\ perf = NoPerf
        /\ qry = NoQueries
        /\ tok = [NoText EXCEPT !.text = text]
        /\ last = [call |-> Call("reindex", None, NullContent, 0), exc |-> OK,
                   ret |-> None, rows |-> EmptyBag]

do_tokenize ==
    /\ ~tok.tokenized
    /\ tok' = [tok EXCEPT !.tokenized = TRUE, !.tokens = tokenize(tok.text)]
    /\ UNCHANGED <<dict, docs, postings, data, temp, given, trip, perf, qry, last>>

do_v_token_stream ==
    /\ ~tok.extracted
    /\ tok' = [tok EXCEPT !.extracted = TRUE, !.stream = unnest_extract_all(tok.text)]
    /\ UNCHANGED <<dict, docs, postings, data, temp, given, trip, perf, qry, last>>

NextText ==
    \/ do_tokenize
    \/ do_v_token_stream

SpecText == InitText /\ [][NextText]_vars

\* The backing store executes every statement.
Next ==
    \/ do_reindex({0})
    \/ do_delete({0})
    \/ do_delete_N({0})
    \/ do_delete_N_rand({0})
    \/ do_insert({0}, Docids \cup {None})
    \/ do_modify({0})

Spec == Init /\ [][Next]_vars

\* The earlier revision of the point updates, no statement failing.
NextUT ==
    \/ do_reindex({0})
    \/ do_ut_delete({0})
    \/ do_ut_insert({0})
    \/ do_ut_modify({0})

SpecUT == Init /\ [][NextUT]_vars

\* Every statement of a call may be the one at which the backing store
\* fails; the caller leaves docid out of insert.
Faults == 0..(modify_steps + 1)

NextFail ==
    \/ do_reindex(Faults)
    \/ do_delete(Faults)
    \/ do_delete_N(Faults)
    \/ do_delete_N_rand(Faults)
    \/ do_insert(Faults, {None})
    \/ do_modify(Faults)

SpecFail == Init /\ [][NextFail]_vars

\* Queries between the updates; the caller leaves docid out of insert.
NextQuery ==
    \/ do_reindex({0})
    \/ do_delete({0})
    \/ do_delete_N({0})
    \/ do_insert({0}, {None})
    \/ do_conjunctive_bm25
    \/ do_disjunctive_bm25

SpecQuery == Init /\ [][NextQuery]_vars

\* Maintenance and queries that return ranked lists.
NextRank ==
    \/ do_reindex({0})
    \/ do_delete({0})
    \/ do_delete_N({0})
    \/ do_insert({0}, {None})
    \/ do_bm25_rows

SpecRank == Init /\ [][NextRank]_vars

\* A rebuild, then deletes of its documents, inserts and queries.
NextCurrent ==
    \/ do_reindex_docs
    \/ do_delete_doc
    \/ do_insert({0}, {None})
    \/ do_bm25_rows

SpecCurrent == Init /\ [][NextCurrent]_vars

\* A rebuild, then inserts and batch deletes.
NextBatch ==
    \/ do_reindex_docs
    \/ do_insert({0}, {None})
    \/ do_delete_N({0})
    \/ do_delete_N_rand({0})

SpecBatch == Init /\ [][NextBatch]_vars

\* Point deletes of both revisions on the indexes that inserts leave.
NextDelete ==
    \/ do_reindex({0})
    \/ do_insert({0}, Docids \cup {None})
    \/ do_delete({0})
    \/ do_ut_delete({0})

SpecDelete == Init /\ [][NextDelete]_vars

\* Rebuilds of both revisions, any statement failing, between point updates.
NextRebuild ==
    \/ do_reindex(Faults)
    \/ do_build_and_import_from_ducklake(Faults)
    \/ do_insert({0}, {None})
    \/ do_delete({0})

SpecRebuild == Init /\ [][NextRebuild]_vars

\* run_tests' inserts and cleanup deletes (T8, T9), started in any state
\* that rebuilds, inserts and deletes leave.
NextRoundTrip ==
    \/ ~trip.open /\ do_insert({0}, Docids \cup {None})
    \/ ~trip.open /\ do_delete({0})
    \/ do_insert_doc
    \/ do_delete_doc

SpecRoundTrip == Init /\ [][NextRoundTrip]_vars

\* A rebuild, then the delete of each of its documents, in any order.
NextRebuildDelete ==
    \/ do_reindex_docs
    \/ do_delete_doc

SpecRebuildDelete == Init /\ [][NextRebuildDelete]_vars

\* Documents inserted one by one into an empty index, any statement failing.
NextIncremental == do_insert_given(Faults)

SpecIncremental == Init /\ [][NextIncremental]_vars

(***************************************************************************)
(* Helpers of the properties.                                              *)
(***************************************************************************)
TablesUnchanged == UNCHANGED <<dict, docs, postings, data>>

\* The docids that have a postings row with this termid.
posting_docids(po, termid) == {p.docid : p \in {q \in DOMAIN po : q.termid = termid}}

\* The termids that have a postings row with this docid.
posting_termids(po, docid) == {p.termid : p \in {q \in DOMAIN po : q.docid = docid}}

\* The distinct terms of a token list.
terms_of(tokens) == {tokens[i] : i \in 1..Len(tokens)}

\* Every term of the contents the model draws from.
AllTerms == UNION {terms_of(TokenizeTable[c]) : c \in Contents}

\* df of a term, 0 when dict has no row for it.
df_of(di, term) ==
    IF \E d \in di : d.term = term THEN (CHOOSE d \in di : d.term = term).df ELSE 0

\* The postings rows of one document.
postings_of(po, docid) == bag_keep(po, {p \in DOMAIN po : p.docid = docid})

\* The postings rows of every other document.
postings_but(po, docid) == bag_keep(po, {p \in DOMAIN po : p.docid # docid})

\* One row per distinct term of the tokens, tf the term's occurrence count.
one_row_per_term(di, tokens, docid) ==
    SetToBag({[termid |-> get_termid(di, t), docid |-> docid, tf |-> Counter(tokens, t)]
              : t \in terms_of(tokens)})

\* The terms that dict names for the postings rows of a document.
posted_terms(di, po, docid) ==
    {d.term : d \in {x \in di : x.termid \in posting_termids(po, docid)}}

(***************************************************************************)
(* C1.  After every committed insert, delete, delete_N, delete_N_rand or   *)
(* modify on an index produced by a rebuild, every dict row's df is the    *)
(* number of distinct docids that have a postings row with its termid.     *)
(***************************************************************************)
C1_DfMatchesPostings ==
    \A d \in dict : d.df = Cardinality(posting_docids(postings, d.termid))

(***************************************************************************)
(* C2.  insert(content, docid) with a docid that docs already holds fails  *)
(* with a duplicate-document error and leaves dict, docs, postings and     *)
(* data as they were.                                                      *)
(***************************************************************************)
C2_DuplicateDocidRejected ==
    [][(/\ last'.call.op = "insert"
        /\ last'.call.docid # None
        /\ exists(docs, last'.call.docid))
       => (last'.exc = "DuplicateDocumentError" /\ TablesUnchanged)]_vars

(***************************************************************************)
(* C3.  modify is atomic: when its insert phase fails or writes nothing,   *)
(* the delete phase is not committed, so after a modify of an indexed      *)
(* document either the tables are as before or the document is there       *)
(* again; it is never removed and left out.                                *)
(***************************************************************************)
C3_ModifyAtomic ==
    [][(/\ last'.call.op \in {"modify", "ut_modify"}
        /\ exists(docs, last'.call.docid))
       => \/ TablesUnchanged
          \/ /\ last'.exc = OK
             /\ last'.ret = last'.call.docid
             /\ exists(docs', last'.call.docid)
             /\ exists(data', last'.call.docid)]_vars

(***************************************************************************)
(* C4.  When a statement of insert, delete, delete_N or delete_N_rand      *)
(* fails, the whole operation is rolled back and no partial update is      *)
(* visible; a batch delete removes all of the documents it selected or     *)
(* none of them.                                                           *)
(***************************************************************************)
C4_FailureRollsBack ==
    [][/\ (/\ last'.call.op \in {"insert", "delete", "delete_N", "delete_N_rand"}
           /\ last'.exc # OK)
          => TablesUnchanged
       /\ last'.call.op \in {"delete_N", "delete_N_rand"}
          => \/ TablesUnchanged
             \/ /\ docs' \subseteq docs
                /\ Cardinality(docs \ docs') =
                      (IF last'.call.N < Cardinality(docs)
                       THEN last'.call.N ELSE Cardinality(docs))
                /\ \A r \in docs \ docs' :
                      /\ ~exists(data', r.docid)
                      /\ posting_termids(postings', r.docid) = {}]_vars

\* A batch delete of both documents failed part-way and both are still there.
C4_Witness ==
    /\ last.call.op = "delete_N"
    /\ last.call.N = 2
    /\ last.exc = BackingStoreError
    /\ Cardinality(docs) = 2
    /\ Cardinality(data) = 2
    /\ dict # {}

(***************************************************************************)
(* C5.  A successful insert(content) with docid omitted and at least one   *)
(* token adds one docs row (docid, len = token count), one data row        *)
(* (docid, content) and exactly one postings row per distinct term with    *)
(* tf = the term's occurrence count; the df of each distinct term is 1 if  *)
(* the term was absent and its previous df + 1 otherwise; dict rows of     *)
(* other terms and the rows of other documents are unchanged.              *)
(***************************************************************************)
InsertPost(doc, docid) ==
    LET tokens == TokenizeTable[doc]
        terms  == terms_of(tokens)
    IN  /\ ~exists(docs, docid) /\ ~exists(data, docid)
        /\ docs' = docs \cup {[docid |-> docid, len |-> Len(tokens)]}
        /\ data' = data \cup {[docid |-> docid, content |-> doc]}
        /\ postings_of(postings', docid) = one_row_per_term(dict', tokens, docid)
        /\ postings_but(postings', docid) = postings
        /\ \A t \in terms :
              /\ Cardinality({d \in dict' : d.term = t}) = 1
              /\ df_of(dict', t) = df_of(dict, t) + 1
              /\ get_termid(dict, t) # None => get_termid(dict', t) = get_termid(dict, t)
        /\ {d \in dict' : d.term \notin terms} = {d \in dict : d.term \notin terms}

C5_InsertAddsDocument ==
    [][(/\ last'.call.op = "insert" /\ last'.call.docid = None
        /\ last'.exc = OK /\ last'.ret # None)
       => \A doc \in Contents :
             (/\ TokenizeTable[doc] # <<>>
              /\ returns(insert(con, doc, None, 0), Call("insert", None, doc, 0)))
             => InsertPost(doc, last'.ret)]_vars

\* doc2 was inserted after doc1 and got docid 2: banana was bumped, cherry is new.
C5_Witness ==
    /\ last.call.op = "insert" /\ last.call.docid = None
    /\ last.exc = OK /\ last.ret = 2
    /\ data = {[docid |-> 1, content |-> doc1], [docid |-> 2, content |-> doc2]}
    /\ df_of(dict, banana) = 2 /\ df_of(dict, cherry) = 1

(***************************************************************************)
(* C6.  delete(docid) of an indexed document decreases by exactly 1 the df *)
(* of each term that has a posting for docid, removes from dict each such  *)
(* term whose df becomes 0, and leaves no postings, docs or data row with  *)
(* that docid; the df of the other terms and the rows of the other         *)
(* documents are unchanged.                                                *)
(***************************************************************************)
DeletePost(docid) ==
    LET touched == posting_termids(postings, docid)
    IN  /\ \A d \in dict :
              IF d.termid \notin touched THEN d \in dict'
              ELSE IF d.df > 1 THEN [d EXCEPT !.df = d.df - 1] \in dict'
              ELSE ~\E x \in dict' : x.termid = d.termid
        /\ \A x \in dict' : \E d \in dict :
              /\ x.termid = d.termid /\ x.term = d.term
              /\ x.df = IF d.termid \in touched THEN d.df - 1 ELSE d.df
        /\ \A x \in dict' : x.df >= 1
        /\ postings' = postings_but(postings, docid)
        /\ docs' = {d \in docs : d.docid # docid}
        /\ data' = {d \in data : d.docid # docid}

C6_DeleteRepairsIndex ==
    [][(/\ last'.call.op \in {"delete", "ut_delete"}
        /\ last'.exc = OK
        /\ exists(docs, last'.call.docid))
       => DeletePost(last'.call.docid)]_vars

\* Document 2 of two was deleted: a term it shared keeps a row with df 1.
C6_Witness ==
    /\ last.call.op = "delete" /\ last.call.docid = 2 /\ last.exc = OK
    /\ data = {[docid |-> 1, content |-> doc1]}
    /\ docs = {[docid |-> 1, len |-> 3]}
    /\ df_of(dict, apple) = 1 /\ df_of(dict, banana) = 1 /\ Cardinality(dict) = 2
    /\ BagCardinality(postings) = 2

(***************************************************************************)
(* C7.  After modify(docid, newContent) of an indexed document, newContent *)
(* having at least one token, the postings of docid are exactly one row    *)
(* per distinct term of newContent with tf = its occurrence count, docs.len*)
(* is newContent's token count, data holds newContent, and every term's df *)
(* has changed by (1 if the term is in newContent, else 0) minus (1 if the *)
(* term was in the old content, else 0).                                   *)
(***************************************************************************)
ModifyPost(docid, content) ==
    LET tokens == TokenizeTable[content]
        terms  == terms_of(tokens)
        old    == posted_terms(dict, postings, docid)
    IN  /\ postings_of(postings', docid) = one_row_per_term(dict', tokens, docid)
        /\ {d \in docs' : d.docid = docid} = {[docid |-> docid, len |-> Len(tokens)]}
        /\ {d \in data' : d.docid = docid} = {[docid |-> docid, content |-> content]}
        /\ \A t \in AllTerms :
              df_of(dict', t) - df_of(dict, t) =
                  (IF t \in terms THEN 1 ELSE 0) - (IF t \in old THEN 1 ELSE 0)

C7_ModifyReplacesDocument ==
    [][\A docid \in Docids, content \in Contents :
          (/\ exists(docs, docid)
           /\ TokenizeTable[content] # <<>>
           /\ returns(modify(con, docid, content, 0), Call("modify", docid, content, 0)))
          => ModifyPost(docid, content)]_vars

(***************************************************************************)
(* C8.  Scenario C: with "apple banana apple" and "banana cherry"          *)
(* inserted, modifying the second document to "apple cherry cherry" makes  *)
(* its postings {apple:1, cherry:2} and its length 3, decrements banana.df *)
(* by 1 and increments apple.df and cherry.df by 1.                        *)
(***************************************************************************)
C8_ScenarioC ==
    [][(/\ data = {[docid |-> 1, content |-> doc1], [docid |-> 2, content |-> doc2]}
        /\ docs = {[docid |-> 1, len |-> 3], [docid |-> 2, len |-> 2]}
        /\ df_of(dict, apple) = 1 /\ df_of(dict, banana) = 2 /\ df_of(dict, cherry) = 1
        /\ returns(modify(con, 2, new2, 0), Call("modify", 2, new2, 0)))
       => /\ postings_of(postings', 2) =
                SetToBag({[termid |-> get_termid(dict', apple), docid |-> 2, tf |-> 1],
                          [termid |-> get_termid(dict', cherry), docid |-> 2, tf |-> 2]})
          /\ [docid |-> 2, len |-> 3] \in docs'
          /\ df_of(dict', banana) = df_of(dict, banana) - 1
          /\ df_of(dict', apple) = df_of(dict, apple) + 1
          /\ df_of(dict', cherry) = df_of(dict, cherry) + 1]_vars

(***************************************************************************)
(* C9.  A conjunctive query that repeats a term ("apple apple banana")     *)
(* returns the same documents as the query with each term written once     *)
(* ("apple banana").                                                       *)
(***************************************************************************)
C9_RepeatedTermsCollapse ==
    (last.call.op = "conjunctive_bm25" /\ last.call.query = q_aab)
    => last.rows = conjunctive_bm25(con, q_ab, last.call.N).rows

(***************************************************************************)
(* C10.  conjunctive_bm25 with top_n at least the corpus size returns      *)
(* exactly the documents that have a posting for every termid of the       *)
(* resolved query-term set, and no other document.                         *)
(***************************************************************************)
C10_ConjunctiveIsAnd ==
    LET termids  == tokenize_query(dict, last.call.query)
        resolved == {termids[i] : i \in 1..Len(termids)}
    IN  (/\ last.call.op = "conjunctive_bm25"
         /\ last.exc = OK
         /\ last.call.N >= Cardinality(docs)
         /\ resolved # {})
        => last.rows = SetToBag({d.docid : d \in {x \in docs :
                            resolved \subseteq posting_termids(postings, x.docid)}})

(***************************************************************************)
(* C11.  disjunctive_bm25 with top_n at least the corpus size returns      *)
(* exactly the documents that have a posting for at least one termid of    *)
(* the resolved query-term set, each document once.                        *)
(***************************************************************************)
C11_DisjunctiveIsOr ==
    LET termids  == tokenize_query(dict, last.call.query)
        resolved == {termids[i] : i \in 1..Len(termids)}
    IN  (/\ last.call.op = "disjunctive_bm25"
         /\ last.exc = OK
         /\ last.call.N >= Cardinality(docs)
         /\ resolved # {})
        => last.rows = SetToBag({d.docid : d \in {x \in docs :
                            posting_termids(postings, x.docid) \cap resolved # {}}})

\* "apple banana" was asked of doc1 (both terms) and doc2 (banana only).
C11_Witness ==
    /\ last.call.op = "disjunctive_bm25" /\ last.call.query = q_ab /\ last.exc = OK
    /\ data = {[docid |-> 1, content |-> doc1], [docid |-> 2, content |-> doc2]}
    /\ last.rows = SetToBag({1, 2})

(***************************************************************************)
(* C12.  A query whose tokens are all absent from dict, or that has no     *)
(* token, returns an empty list from conjunctive_bm25 and from             *)
(* disjunctive_bm25, raises nothing and creates no temporary query state.  *)
(***************************************************************************)
C12_UnknownQueryIsEmpty ==
    [][(/\ last'.call.op \in {"conjunctive_bm25", "disjunctive_bm25"}
        /\ tokenize_query(dict, last'.call.query) = <<>>)
       => /\ last'.exc = OK
          /\ last'.rows = EmptyBag
          /\ temp' = temp /\ ~temp'.exists
          /\ TablesUnchanged]_vars

\* "cherry" was asked of an index that holds doc1 only.
C12_Witness ==
    /\ last.call.op = "conjunctive_bm25" /\ last.call.query = q_c
    /\ data = {[docid |-> 1, content |-> doc1]}
    /\ Cardinality(dict) = 2 /\ get_termid(dict, cherry) = None
    /\ last.exc = OK /\ last.rows = EmptyBag /\ ~temp.exists

(***************************************************************************)
(* C13.  The rebuild publishes dict, docs and postings atomically: after   *)
(* a rebuild, also one that failed part-way, the three tables are all the  *)
(* old index or all the new index built from the one content of data,      *)
(* never a mixture.                                                        *)
(***************************************************************************)
IndexBecomes(ix) ==
    dict' = ix.dict /\ docs' = ix.docs /\ postings' = ix.postings

C13_RebuildAtomic ==
    [][last'.call.op \in {"reindex", "build_and_import_from_ducklake"}
       => /\ data' = data
          /\ \/ UNCHANGED <<dict, docs, postings>>
             \/ /\ last'.call.op = "reindex"
                /\ IndexBecomes(build_index_to_parquet_from_ducklake(data))
             \/ /\ last'.call.op = "build_and_import_from_ducklake"
                /\ \E rows \in fetch_data_df(data) : IndexBecomes(build_index(rows))]_vars

(***************************************************************************)
(* C14.  Rebuild and incremental maintenance agree: inserting the          *)
(* documents of a list one by one into an empty index yields the same set  *)
(* of (term, df), the same set of (docid, len) and the same set of         *)
(* (term, docid, tf) as the full rebuild over a data table holding those   *)
(* documents, termid numbering aside.                                      *)
(***************************************************************************)
term_df(di) == {<<d.term, d.df>> : d \in di}

term_docid_tf(di, po) ==
    {<<x[1].term, x[2].docid, x[2].tf>>
        : x \in {y \in di \X DOMAIN po : y[1].termid = y[2].termid}}

C14_RebuildAgreesWithInserts ==
    given # {} =>
        LET built == build_index_to_parquet_from_ducklake(given)
        IN  /\ term_df(dict) = term_df(built.dict)
            /\ docs = built.docs
            /\ term_docid_tf(dict, postings) = term_docid_tf(built.dict, built.postings)

(***************************************************************************)
(* C15.  delete_N / delete_N_rand: S being the docids selected, each term  *)
(* with a posting in S has its df decreased by the number of distinct      *)
(* documents of S that contain it (not by the sum of their tf), clamped at *)
(* 0; a touched term whose df becomes 0 is removed from dict; all postings,*)
(* docs and data rows of S are removed, and the rows of the documents      *)
(* outside S and of the untouched terms are unchanged.                     *)
(***************************************************************************)
containing(S, tid) ==
    {p.docid : p \in {q \in DOMAIN postings : q.docid \in S /\ q.termid = tid}}

DeleteNPost(S) ==
    LET touched == {p.termid : p \in {q \in DOMAIN postings : q.docid \in S}}
        stay == {d \in dict : d.termid \in touched => d.df > Cardinality(containing(S, d.termid))}
    IN  /\ dict' = {[d EXCEPT !.df = d.df - Cardinality(containing(S, d.termid))] : d \in stay}
        /\ postings' = bag_keep(postings, {p \in DOMAIN postings : p.docid \notin S})
        /\ docs' = {d \in docs : d.docid \notin S}
        /\ data' = {d \in data : d.docid \notin S}

has_row(docid) ==
    \/ exists(docs, docid)
    \/ exists(DOMAIN postings, docid)
    \/ exists(data, docid)

C16_DeleteAbsentIsNoOp ==
    [][(last'.call.op = "delete" /\ ~has_row(last'.call.docid))
       => (last'.exc = OK /\ TablesUnchanged)]_vars

\* delete was called with a docid that no document ever had, and both
\* documents and the terms they share are still there.
C16_Witness ==
    /\ last.call.op = "delete" /\ last.call.docid = MaxDocid + 1 /\ last.exc = OK
    /\ data = {[docid |-> 1, content |-> doc1], [docid |-> 2, content |-> doc2]}
    /\ Cardinality(docs) = 2
    /\ df_of(dict, apple) = 1 /\ df_of(dict, banana) = 2 /\ df_of(dict, cherry) = 1
    /\ BagCardinality(postings) = 4

(***************************************************************************)
(* C17.  Insert followed by delete is a round trip: from any index state   *)
(* and for any content, insert(content) followed by delete of the returned *)
(* docid restores dict (same terms, same df), docs, postings and data to   *)
(* their state before the insert, with no row left for that docid; the     *)
(* same holds for two inserts followed by the two deletes.                 *)
(***************************************************************************)
C17_InsertDeleteRoundTrip ==
    (trip.open /\ trip.pending = <<>>) =>
        /\ term_df(dict) = term_df(trip.base.dict)
        /\ docs = trip.base.docs
        /\ postings = trip.base.postings
        /\ data = trip.base.data
        /\ \A d \in trip.inserted : ~has_row(d.docid)

\* doc2 was inserted next to doc1, with which it shares banana, and deleted
\* again.
C17_Witness ==
    /\ trip.open /\ trip.pending = <<>>
    /\ trip.inserted = {[docid |-> 2, content |-> doc2]}
    /\ last.call.op = "delete" /\ last.call.docid = 2 /\ last.exc = OK
    /\ data = {[docid |-> 1, content |-> doc1]}
    /\ df_of(dict, banana) = 1

(***************************************************************************)
(* C18.  After a rebuild over any document set, deleting every document    *)
(* one by one with delete leaves dict, docs and postings all empty.        *)
(***************************************************************************)
C18_RebuildThenDeleteAll ==
    (trip.open /\ trip.pending = <<>>) =>
        (dict = {} /\ docs = {} /\ postings = EmptyBag)

\* doc1 and doc2 were rebuilt into an index of three terms and four
\* postings, and both have been deleted.
C18_Witness ==
    /\ trip.open /\ trip.pending = <<>>
    /\ trip.base.data = {[docid |-> 1, content |-> doc1], [docid |-> 2, content |-> doc2]}
    /\ Cardinality(trip.base.dict) = 3 /\ BagCardinality(trip.base.postings) = 4
    /\ last.call.op = "delete" /\ last.exc = OK
    /\ dict = {} /\ docs = {} /\ postings = EmptyBag /\ data = {}

(***************************************************************************)
(* C19.  After every committed rebuild, insert, delete, delete_N or        *)
(* modify, the len of every docs row equals the number of tokens that the  *)
(* tokenizer yields for the content that data holds for that docid.        *)
(***************************************************************************)
C19_LenIsTokenCount ==
    \A d \in docs :
        \E r \in data : r.docid = d.docid /\ d.len = Len(TokenizeTable[r.content])

(***************************************************************************)
(* C20.  modify never destroys a document: after modify(docid, newContent) *)
(* of an indexed document, for every newContent, content without an        *)
(* alphabetic token included, docs has a row for docid with len = the      *)
(* token count of newContent and the data row of docid holds newContent.   *)
(***************************************************************************)
ModifyKeeps(docid, content) ==
    /\ \E d \in docs' : d.docid = docid
    /\ \A d \in docs' : d.docid = docid => d.len = Len(TokenizeTable[content])
    /\ \E r \in data' : r.docid = docid
    /\ \A r \in data' : r.docid = docid => r.content = content

C20_ModifyKeepsDocument ==
    [][\A docid \in Docids, content \in Contents :
          (/\ exists(docs, docid)
           /\ \/ returns(modify(con, docid, content, 0), Call("modify", docid, content, 0))
              \/ returns(ut_modify(con, docid, content, 0),
                         Call("ut_modify", docid, content, 0)))
          => ModifyKeeps(docid, content)]_vars

(***************************************************************************)
(* C21.  In the delete-and-measure loop, whenever after a batch delete the *)
(* cumulative percentage of documents deleted has reached or passed the    *)
(* next checkpoint threshold, a checkpoint is requested before the next    *)
(* batch delete begins.                                                    *)
(***************************************************************************)
\* perf.pc = "delete": a batch delete is about to begin; from the second
\* iteration on a batch delete precedes it.
C21_CheckpointBeforeNextDelete ==
    (/\ perf.pc = "delete" /\ perf.iteration > 1
     /\ perf.checkpoint_pct > 0
     /\ ~\E k \in 1..Len(perf.fired) : perf.fired[k].iteration = perf.iteration - 1)
    => pct_deleted(get_docid_count(docs), perf.original_count)
          < perf.next_checkpoint_pct * perf.original_count

(***************************************************************************)
(* C22.  The checkpoint schedule repeats: the first threshold is           *)
(* checkpoint_pct, each checkpoint raises the next threshold by exactly    *)
(* checkpoint_pct, so that the k-th checkpoint fires against the threshold *)
(* k * checkpoint_pct; at most one checkpoint is requested per iteration   *)
(* of the loop, and with checkpoint_pct = 0 none is ever requested.        *)
(***************************************************************************)
C22_ThresholdSchedule ==
    /\ \A k \in 1..Len(perf.fired) : perf.fired[k].threshold = k * perf.checkpoint_pct
    /\ perf.next_checkpoint_pct = (Len(perf.fired) + 1) * perf.checkpoint_pct
    /\ \A j, k \in 1..Len(perf.fired) :
          j < k => perf.fired[j].iteration < perf.fired[k].iteration
    /\ perf.checkpoint_pct = 0 => perf.fired = <<>>

\* Four documents deleted one by one with a checkpoint every 25 percent:
\* the loop is complete and three checkpoints were requested, in the
\* iterations 2, 3 and 4.
C22_Witness ==
    /\ perf.pc = "done" /\ perf.original_count = 4 /\ perf.checkpoint_pct = 25
    /\ Len(perf.fired) = 3
    /\ perf.fired[3] = [threshold |-> 75, iteration |-> 4]
    /\ docs = {}

(***************************************************************************)
(* C23.  Two queries (conjunctive or disjunctive, with different query     *)
(* terms) whose statements interleave on the index handle each return      *)
(* exactly the result they return when run alone, and neither changes      *)
(* dict, docs, postings or data.                                           *)
(***************************************************************************)
alone(p) ==
    LET c == connect(Tables(dict, docs, postings, data))
    IN  IF qry[p].qtype = "conjunctive"
        THEN conjunctive_bm25(c, qry[p].query, MaxDocid)
        ELSE disjunctive_bm25(c, qry[p].query, MaxDocid)

C23_ConcurrentQueriesIsolated ==
    \A p \in Callers :
        qry[p].pc \in {"returned", "raised"} =>
            (qry[p].exc = alone(p).exc /\ qry[p].rows = alone(p).rows)

(***************************************************************************)
(* C24.  The rebuild's tokenization (lower-case the text, then extract the *)
(* runs of [a-z]) and the maintainer's and query engine's tokenization     *)
(* (extract the runs of [A-Za-z], then lower-case each) yield the same     *)
(* token sequence for every text, empty or null content and text with      *)
(* characters outside the ASCII letters included.                          *)
(***************************************************************************)
C24_SameTokenization ==
    (tok.tokenized /\ tok.extracted) => tok.tokens = tok.stream

(***************************************************************************)
(* C25.  modify(docid, content) for a docid that is not in the index is a  *)
(* silent no-op: it raises nothing and leaves dict, docs, postings and     *)
(* data unchanged.                                                         *)
(***************************************************************************)
C25_ModifyAbsentIsNoOp ==
    [][\A docid \in Docids, content \in Contents :
          (/\ ~has_row(docid)
           /\ \/ returns(modify(con, docid, content, 0), Call("modify", docid, content, 0))
              \/ returns(ut_modify(con, docid, content, 0),
                         Call("ut_modify", docid, content, 0)))
          => (last'.exc = OK /\ TablesUnchanged)]_vars

(***************************************************************************)
(* C26.  insert with docid omitted returns max(docid over docs) + 1, or 1  *)
(* when docs is empty; the returned docid is never one that has a docs,    *)
(* postings or data row at the time of the call.                           *)
(***************************************************************************)
C26_InsertAssignsNextDocid ==
    [][(/\ last'.call.op \in {"insert", "ut_insert"}
        /\ last'.call.docid = None
        /\ last'.exc = OK)
       => /\ last'.ret = IF docs = {} THEN 1 ELSE max_of({d.docid : d \in docs}) + 1
          /\ ~has_row(last'.ret)]_vars

(***************************************************************************)
(* C27.  In every state reached by rebuild, insert, delete, delete_N and   *)
(* modify no two dict rows share a termid and no two dict rows share a     *)
(* term; and across insert, delete, delete_N and modify a term that stays  *)
(* in dict keeps the same termid.                                          *)
(***************************************************************************)
dict_keys_unique(di) ==
    \A a \in di, b \in di : (a.termid = b.termid \/ a.term = b.term) => a = b

termids_kept(di, dj) ==
    \A a \in di, b \in dj : a.term = b.term => a.termid = b.termid

C27_TermidsUniqueAndStable ==
    /\ [](dict_keys_unique(dict))
    /\ [][last'.call.op \in {"insert", "delete", "delete_N", "delete_N_rand", "modify",
                              "ut_insert", "ut_delete", "ut_modify"}
            => termids_kept(dict, dict')]_vars

(***************************************************************************)
(* C28.  In every committed state reached by rebuild, insert, delete,      *)
(* delete_N and modify every dict row has df >= 1: a term whose df reaches *)
(* 0 is removed from dict in the same operation, and df is never negative. *)
(***************************************************************************)
C28_DfAtLeastOne == \A d \in dict : d.df >= 1

\* delete_N has removed one of two documents: the terms of the one that is
\* left are in dict, each with df = 1.
C28_Witness ==
    /\ last.call.op \in {"delete_N", "delete_N_rand"}
    /\ last.call.N = 1
    /\ last.exc = OK
    /\ Cardinality(docs) = 1
    /\ dict # {}
    /\ \A d \in dict : d.df = 1

(***************************************************************************)
(* C29.  In every committed state reached by rebuild, insert, delete,      *)
(* delete_N and modify postings holds at most one row per (termid, docid)  *)
(* pair, every tf is >= 1, and tf equals the number of occurrences of that *)
(* term in the document's current content.                                 *)
(***************************************************************************)
one_row_per_pair(po) ==
    /\ \A p \in DOMAIN po : po[p] = 1
    /\ \A p \in DOMAIN po, q \in DOMAIN po :
          (p.termid = q.termid /\ p.docid = q.docid) => p = q

tf_is_count(po, di, da) ==
    \A p \in DOMAIN po :
        /\ p.tf >= 1
        /\ \E d \in di, x \in da :
              /\ d.termid = p.termid
              /\ x.docid = p.docid
              /\ p.tf = Counter(TokenizeTable[x.content], d.term)

C29_PostingsMatchContent ==
    /\ one_row_per_pair(postings)
    /\ tf_is_count(postings, dict, data)

(***************************************************************************)
(* C30.  The rebuild gives every document of data a docs row, including    *)
(* the documents whose content has no token (empty, null, or only          *)
(* non-alphabetic characters), which get len = 0 and no postings row.      *)
(***************************************************************************)
rebuilt ==
    /\ last.call.op \in {"reindex", "build_and_import_from_ducklake"}
    /\ last.exc = OK

C30_RebuildKeepsTokenlessDocuments ==
    rebuilt =>
        \A x \in data :
            /\ \E d \in docs : d.docid = x.docid
            /\ TokenizeTable[x.content] = <<>> =>
                  /\ \A d \in docs : d.docid = x.docid => d.len = 0
                  /\ \A p \in DOMAIN postings : p.docid # x.docid

(***************************************************************************)
(* C31.  Every query is evaluated against the catalog as it is at query    *)
(* time: after any sequence of committed inserts and deletes, N is the     *)
(* current number of docs rows, and no docid that has been deleted (and    *)
(* not re-inserted) appears in the result of a later conjunctive or        *)
(* disjunctive query.                                                      *)
(***************************************************************************)
query_returned ==
    /\ last.call.op \in {"conjunctive_bm25", "disjunctive_bm25"}
    /\ last.exc = OK

\* The postings rows of docid for the terms of the query.
query_postings(docid, query) ==
    {p \in DOMAIN postings :
        /\ p.docid = docid
        /\ \E d \in dict : d.termid = p.termid /\ d.term \in terms_of(TokenizeTable[query])}

\* The BM25 sum over the postings rows P, N being the number of docs rows.
RECURSIVE score_now(_)
score_now(P) ==
    IF P = {} THEN 0
    ELSE LET p     == CHOOSE x \in P : TRUE
             N     == Cardinality(docs)
             known == {d \in docs : d.len # NULL}
             df    == (CHOOSE d \in dict : d.termid = p.termid).df
             len   == (CHOOSE d \in docs : d.docid = p.docid).len
         IN  (ln_milli(2 * (N - df) + 1) - ln_milli(2 * df + 1))
                 * tf_factor([N |-> N, S |-> sum_len(known), Nn |-> Cardinality(known)],
                             p.tf, len)
             + score_now(P \ {p})

\* The docids of the last rebuild that have no docs row any more.
deleted == {d.docid : d \in trip.base.docs} \ {d.docid : d \in docs}

C31_QueriesSeeCurrentCatalog ==
    query_returned =>
        \A i \in DOMAIN last.rows :
            /\ last.rows[i].docid \notin deleted
            /\ \E d \in docs : d.docid = last.rows[i].docid
            /\ last.rows[i].score = score_now(query_postings(last.rows[i].docid, last.call.query))

\* A query has returned a document after the delete of another one that
\* held a term of the query when the index was rebuilt.
C31_Witness ==
    /\ query_returned
    /\ last.rows # <<>>
    /\ \E docid \in deleted :
          \E p \in DOMAIN trip.base.postings, d \in trip.base.dict :
              /\ p.docid = docid
              /\ d.termid = p.termid
              /\ d.term \in terms_of(TokenizeTable[last.call.query])

(***************************************************************************)
(* C32.  Both query modes return at most top_n (docid, score) pairs, with  *)
(* distinct docids, in non-increasing score order, and these are the top_n *)
(* highest-scoring candidates: no candidate left out has a score strictly  *)
(* greater than a returned one.                                            *)
(***************************************************************************)
\* The rows of scored for the last query, on the tables as they are.
candidates ==
    scored(con.cur, query_terms(tokenize_query(dict, last.call.query)),
           IF last.call.op = "conjunctive_bm25" THEN "conjunctive" ELSE "disjunctive")

returned == {last.rows[i] : i \in DOMAIN last.rows}

C32_TopNByScore ==
    (query_returned /\ tokenize_query(dict, last.call.query) # <<>>) =>
        /\ Len(last.rows) <= last.call.N
        /\ \A i \in DOMAIN last.rows, j \in DOMAIN last.rows :
              /\ i # j => last.rows[i].docid # last.rows[j].docid
              /\ i < j => last.rows[i].score >= last.rows[j].score
        /\ returned \subseteq candidates
        /\ Len(last.rows) < last.call.N => returned = candidates
        /\ \A c \in candidates \ returned, r \in returned : c.score <= r.score

\* A query with top_n = 1 has returned one of two candidates whose scores differ.
C32_Witness ==
    /\ query_returned
    /\ last.call.N = 1
    /\ Len(last.rows) = 1
    /\ \E c \in candidates : c.score < last.rows[1].score

(***************************************************************************)
(* C33.  In a disjunctive two-term query over a 2-document corpus where    *)
(* one document contains both query terms and the other contains only one  *)
(* of them, both documents are returned and the document containing both   *)
(* terms is ranked no lower than the other, for every choice of document   *)
(* lengths and term frequencies.                                           *)
(***************************************************************************)
\* The terms of the last query that the content holds.
query_terms_in(content) ==
    terms_of(TokenizeTable[last.call.query]) \cap terms_of(TokenizeTable[content])

C33_BothTermsRankNoLower ==
    \A a \in data, b \in data :
        (/\ query_returned
         /\ last.call.op = "disjunctive_bm25"
         /\ last.call.N >= 2
         /\ Cardinality(data) = 2
         /\ Cardinality(terms_of(TokenizeTable[last.call.query])) = 2
         /\ Cardinality(query_terms_in(a.content)) = 2
         /\ Cardinality(query_terms_in(b.content)) = 1)
        => \E i \in DOMAIN last.rows, j \in DOMAIN last.rows :
              /\ last.rows[i].docid = a.docid
              /\ last.rows[j].docid = b.docid
              /\ last.rows[i].score >= last.rows[j].score

(***************************************************************************)
(* C34.  delete_N over a selected set S leaves the index in the same state *)
(* (same dict rows with the same df, same docs, postings and data rows) as *)
(* calling delete once for each docid of S, in any order.                  *)
(***************************************************************************)
\* delete called for each docid of the sequence, one call after the other.
RECURSIVE delete_each(_, _)
delete_each(c, docid_list) ==
    IF docid_list = <<>> THEN c
    ELSE delete_each(delete(c, Head(docid_list), 0).conn, Tail(docid_list))

\* The orders in which the docids of S can be taken.
orders(S) ==
    {s \in [1..Cardinality(S) -> S] : \A i \in DOMAIN s, j \in DOMAIN s : i # j => s[i] # s[j]}

min_of(a, b) == IF a < b THEN a ELSE b

C35_DeleteNRemovesMinOfNAndCount ==
    [][(last'.call.op \in {"delete_N", "delete_N_rand"} /\ last'.exc = OK)
       => /\ docs' \subseteq docs
          /\ Cardinality(docs \ docs') = min_of(last'.call.N, Cardinality(docs))
          /\ Cardinality(docs') = Cardinality(docs) - min_of(last'.call.N, Cardinality(docs))]_vars

\* A batch delete with N = 1 has removed one of the two documents of the
\* rebuilt index.
C35_Witness ==
    /\ last.call.op \in {"delete_N", "delete_N_rand"}
    /\ last.call.N = 1
    /\ last.exc = OK
    /\ Cardinality(trip.base.docs) = 2
    /\ Cardinality(docs) = 1
    /\ docs \subseteq trip.base.docs

(***************************************************************************)
(* C36.  insert of content that yields no token (empty, null, or only      *)
(* non-alphabetic characters) returns None without opening a transaction   *)
(* and leaves dict, docs, postings and data unchanged, whether or not a    *)
(* docid was supplied.                                                     *)
(***************************************************************************)
C36_TokenlessInsertIsNoOp ==
    \A content \in Contents, docid \in Docids \cup {None} :
        TokenizeTable[content] = <<>> =>
            /\ insert(con, content, docid, 0) = Return(con, OK, None)
            /\ ut_insert(con, content, docid, 0) = Return(con, OK, None)

(***************************************************************************)
(* C37.  The delete-and-measure loop terminates for every original         *)
(* document count >= 1 and every delete_batch >= 1: it runs exactly        *)
(* floor(original_count / delete_batch) iterations, the docs count         *)
(* strictly decreases by delete_batch in each, and it ends with            *)
(* original_count mod delete_batch documents left.  With delete_batch = 0  *)
(* the loop condition never becomes false.                                 *)
(***************************************************************************)
C37_LoopTerminates ==
    /\ (perf.original_count >= 1 /\ perf.delete_batch >= 1) ~> (perf.pc = "done")
    /\ [](perf.pc = "done" =>
            /\ perf.delete_batch >= 1
            /\ perf.iteration = perf.original_count \div perf.delete_batch
            /\ Cardinality(docs) = perf.original_count % perf.delete_batch)
    /\ [][(perf.pc = "delete" /\ perf'.pc # "delete")
            => (/\ perf'.pc = "checkpoint"
                /\ perf.delete_batch >= 1 => Cardinality(docs') < Cardinality(docs)
                /\ Cardinality(docs') = Cardinality(docs) - perf.delete_batch)]_vars
    /\ [](perf.delete_batch = 0 => (perf.pc = "while" => loop_condition(perf)))

\* A run with 3 documents and batches of 2 is complete: one iteration, one
\* document left.
C37_Witness ==
    /\ perf.pc = "done"
    /\ perf.original_count = 3
    /\ perf.delete_batch = 2
    /\ perf.iteration = 1
    /\ Cardinality(docs) = 1

(***************************************************************************)
(* C38.  In every committed state reached by rebuild, insert, delete,      *)
(* delete_N and modify the index is referentially closed: every postings   *)
(* row's docid has a docs row and its termid has a dict row, every dict    *)
(* row has at least one postings row, and the set of docids in docs equals *)
(* the set of docids in data.                                              *)
(***************************************************************************)
C38_ReferentiallyClosed ==
    /\ \A p \in DOMAIN postings :
          /\ \E d \in docs : d.docid = p.docid
          /\ \E d \in dict : d.termid = p.termid
    /\ \A d \in dict : \E p \in DOMAIN postings : p.termid = d.termid
    /\ {d.docid : d \in docs} = {d.docid : d \in data}

(***************************************************************************)
(* C39.  For the same query on the same index state and top_n at least the *)
(* corpus size, every docid returned by conjunctive_bm25 is also returned  *)
(* by disjunctive_bm25, and it is scored from the same set of (term,       *)
(* document) contributions in both modes.                                  *)
(***************************************************************************)
\* The (term, document) rows that a mode sums for docid, for the last query
\* on the tables as they are.
contributions_of(docid, qtype) ==
    {j \in contributions(con.cur, query_terms(tokenize_query(dict, last.call.query)), qtype)
        : j.p.docid = docid}

\* conjunctive_bm25 has returned with top_n at least the number of docs rows.
conjunctive_returned ==
    /\ last.call.op = "conjunctive_bm25"
    /\ last.exc = OK
    /\ last.call.N >= Cardinality(docs)

C39_ConjunctiveWithinDisjunctive ==
    conjunctive_returned =>
        \A r \in bm25_rows(con, last.call.query, last.call.N, "disjunctive") :
            /\ r.exc = OK
            /\ \A i \in DOMAIN last.rows :
                  /\ \E k \in DOMAIN r.rows : r.rows[k].docid = last.rows[i].docid
                  /\ contributions_of(last.rows[i].docid, "conjunctive")
                        = contributions_of(last.rows[i].docid, "disjunctive")

\* conjunctive_bm25 has returned a document that holds both terms of the
\* query while a second document holds one of them only.
C39_Witness ==
    /\ conjunctive_returned
    /\ last.rows # <<>>
    /\ \E i \in DOMAIN last.rows :
          Cardinality(contributions_of(last.rows[i].docid, "conjunctive")) >= 2
    /\ \E r \in bm25_rows(con, last.call.query, last.call.N, "disjunctive") :
          Len(r.rows) > Len(last.rows)

====
